---- MODULE Spec2Model ----
(***************************************************************************)
(* Lead acquisition pipeline of brilliox-1: SearchService.hunt_leads, the  *)
(* search fallback chain, lead extraction and query synthesis.             *)
(*                                                                         *)
(* Text is modelled at code-point level: a text is a sequence of           *)
(* one-character strings.  An Arabic letter is the token "ar:" followed by *)
(* its Buckwalter transliteration, an Arabic-Indic digit is "ar#d", the en *)
(* dash and the em dash are the tokens "endash" and "emdash"; each of      *)
(* these tokens is ONE code point of the text.                             *)
(***************************************************************************)
EXTENDS Integers, Sequences, FiniteSets, TLC

\* ------------------------------------------------------------------ text

\* A function with domain 1..n as the tuple it is equal to.
AsSeq(f) == SubSeq(f, 1, Len(f))

\* An ASCII string literal as a text.
S(s) == AsSeq([i \in 1..Len(s) |-> SubSeq(s, i, i)])

\* An Arabic string, written in Buckwalter transliteration, as a text.
Ar(s) == AsSeq([i \in 1..Len(s) |->
                 IF SubSeq(s, i, i) = " " THEN " " ELSE "ar:" \o SubSeq(s, i, i)])

\* Python's None, distinct from every text.
None == <<"<None>">>

\* str(x) inside an f-string: None prints as the text "None".
Fmt(x) == IF x = None THEN S("None") ELSE x

\* t.startswith(p)
StartsWith(t, p) == Len(p) <= Len(t) /\ SubSeq(t, 1, Len(p)) = p

\* p in t, for two texts
Contains(t, p) ==
  \E i \in 1..(Len(t) + 1) : i + Len(p) - 1 <= Len(t) /\ SubSeq(t, i, i + Len(p) - 1) = p

\* seq[:n] with Python's slice semantics (a negative n counts from the end).
PySlice(seq, n) ==
  IF n >= 0 THEN SubSeq(seq, 1, IF n < Len(seq) THEN n ELSE Len(seq))
  ELSE SubSeq(seq, 1, IF Len(seq) + n > 0 THEN Len(seq) + n ELSE 0)

AsciiDigits == {"0", "1", "2", "3", "4", "5", "6", "7", "8", "9"}
ArabicDigits == {"ar#0", "ar#1", "ar#2", "ar#3", "ar#4", "ar#5", "ar#6", "ar#7", "ar#8", "ar#9"}
\* \d of a str pattern matches every Unicode decimal digit.
UniDigits == AsciiDigits \cup ArabicDigits
\* \s
Space == {" ", "\t", "\n"}
Lower == {"a", "b", "c", "d", "e", "f", "g", "h", "i", "j", "k", "l", "m",
          "n", "o", "p", "q", "r", "s", "t", "u", "v", "w", "x", "y", "z"}
Upper == {"A", "B", "C", "D", "E", "F", "G", "H", "I", "J", "K", "L", "M",
          "N", "O", "P", "Q", "R", "S", "T", "U", "V", "W", "X", "Y", "Z"}
Letters == Lower \cup Upper

\* t.strip()
RECURSIVE LStrip(_)
LStrip(t) == IF t # <<>> /\ Head(t) \in Space THEN LStrip(Tail(t)) ELSE t
RECURSIVE RStrip(_)
RStrip(t) ==
  IF t # <<>> /\ t[Len(t)] \in Space THEN RStrip(SubSeq(t, 1, Len(t) - 1)) ELSE t
Strip(t) == RStrip(LStrip(t))

\* ----------------------------------------------------------------- regex
(* A pattern is a sequence of items.  An item is a character class with a *)
(* greedy repeat count {min,max} (neg: the class is complemented), or an  *)
(* optional non-capturing group (?:...)? holding a sub-pattern.  A max of *)
(* -1 is an unbounded repeat.                                              *)
Cls(chars, lo, hi) == [kind |-> "cls", chars |-> chars, neg |-> FALSE, min |-> lo, max |-> hi, sub |-> <<>>]
NotCls(chars, lo, hi) == [kind |-> "cls", chars |-> chars, neg |-> TRUE, min |-> lo, max |-> hi, sub |-> <<>>]
Opt(sub) == [kind |-> "opt", chars |-> {}, neg |-> FALSE, min |-> 0, max |-> 1, sub |-> sub]
Lit(c) == Cls({c}, 1, 1)
OptLit(c) == Cls({c}, 0, 1)

InCls(item, c) == IF item.neg THEN c \notin item.chars ELSE c \in item.chars

\* Length of the run of characters of the item's class at position i, capped at max.
RECURSIVE RunLen(_, _, _, _)
RunLen(item, t, i, n) ==
  IF (item.max < 0 \/ n < item.max) /\ i + n <= Len(t) /\ InCls(item, t[i + n])
  THEN RunLen(item, t, i, n + 1) ELSE n

(* re.match of pat[k..] at position i of t, backtracking as Python's       *)
(* engine does (greedy first): the position after the match, or 0.         *)
RECURSIVE MatchAt(_, _, _, _)
RECURSIVE TryCount(_, _, _, _, _)
TryCount(pat, k, t, i, n) ==
  IF n < pat[k].min THEN 0
  ELSE LET r == MatchAt(pat, k + 1, t, i + n)
       IN IF r # 0 THEN r ELSE TryCount(pat, k, t, i, n - 1)
MatchAt(pat, k, t, i) ==
  IF k > Len(pat) THEN i
  ELSE IF pat[k].kind = "opt"
  THEN LET r == MatchAt(pat[k].sub \o SubSeq(pat, k + 1, Len(pat)), 1, t, i)
       IN IF r # 0 THEN r ELSE MatchAt(pat, k + 1, t, i)
  ELSE TryCount(pat, k, t, i, RunLen(pat[k], t, i, 0))

\* re.findall(pat, t) for a pattern without capturing groups and without
\* empty matches: the non-overlapping matches, scanning left to right.
RECURSIVE FindAllFrom(_, _, _)
FindAllFrom(pat, t, i) ==
  IF i > Len(t) THEN <<>>
  ELSE LET e == MatchAt(pat, 1, t, i)
       IN IF e > i THEN <<SubSeq(t, i, e - 1)>> \o FindAllFrom(pat, t, e)
          ELSE FindAllFrom(pat, t, i + 1)
FindAll(pat, t) == FindAllFrom(pat, t, 1)

\* re.sub(pat, '', t) for a pattern without empty matches.
RECURSIVE SubFrom(_, _, _)
SubFrom(pat, t, i) ==
  IF i > Len(t) THEN <<>>
  ELSE LET e == MatchAt(pat, 1, t, i)
       IN IF e > i THEN SubFrom(pat, t, e)
          ELSE <<t[i]>> \o SubFrom(pat, t, i + 1)
ReSubEmpty(pat, t) == SubFrom(pat, t, 1)

\* ------------------------------------------- SearchService: extraction

D == Cls(UniDigits, 1, 1)
Dn(n) == Cls(UniDigits, n, n)
R09 == Cls(AsciiDigits, 1, 1)
SepOpt == Cls(Space \cup {"-"}, 0, 1)
SpOpt == Cls(Space, 0, 1)

\* (?:\+?2)?01[0125]\d{8}
EgA == <<Opt(<<OptLit("+"), Lit("2")>>), Lit("0"), Lit("1"), Cls({"0", "1", "2", "5"}, 1, 1), Dn(8)>>
\* 01[0125]\d{8}
EgB == <<Lit("0"), Lit("1"), Cls({"0", "1", "2", "5"}, 1, 1), Dn(8)>>
\* 01[0125][-\s]?\d{4}[-\s]?\d{4}
EgC == <<Lit("0"), Lit("1"), Cls({"0", "1", "2", "5"}, 1, 1), SepOpt, Dn(4), SepOpt, Dn(4)>>
\* \+20\s?1[0125]\d{8}
EgD == <<Lit("+"), Lit("2"), Lit("0"), SpOpt, Lit("1"), Cls({"0", "1", "2", "5"}, 1, 1), Dn(8)>>
\* (?:\+?966)?0?5[0-9]\d{7}
SaA == <<Opt(<<OptLit("+"), Lit("9"), Lit("6"), Lit("6")>>), OptLit("0"), Lit("5"), R09, Dn(7)>>
\* 05[0-9]\d{7}
SaB == <<Lit("0"), Lit("5"), R09, Dn(7)>>
\* 05[0-9][-\s]?\d{3}[-\s]?\d{4}
SaC == <<Lit("0"), Lit("5"), R09, SepOpt, Dn(3), SepOpt, Dn(4)>>
\* \+966\s?5[0-9]\d{7}
SaD == <<Lit("+"), Lit("9"), Lit("6"), Lit("6"), SpOpt, Lit("5"), R09, Dn(7)>>
\* 9665[0-9]\d{7}
SaE == <<Lit("9"), Lit("6"), Lit("6"), Lit("5"), R09, Dn(7)>>
\* (?:\+?971)?0?5[0-9]\d{7}
AeA == <<Opt(<<OptLit("+"), Lit("9"), Lit("7"), Lit("1")>>), OptLit("0"), Lit("5"), R09, Dn(7)>>
\* \+971\s?5[0-9]\d{7}
AeC == <<Lit("+"), Lit("9"), Lit("7"), Lit("1"), SpOpt, Lit("5"), R09, Dn(7)>>
\* 9715[0-9]\d{7}
AeD == <<Lit("9"), Lit("7"), Lit("1"), Lit("5"), R09, Dn(7)>>
\* (?:\+?965)?[569]\d{7}
KwA == <<Opt(<<OptLit("+"), Lit("9"), Lit("6"), Lit("5")>>), Cls({"5", "6", "9"}, 1, 1), Dn(7)>>
\* [569]\d{7}
KwB == <<Cls({"5", "6", "9"}, 1, 1), Dn(7)>>
\* \+965\s?[569]\d{7}
KwC == <<Lit("+"), Lit("9"), Lit("6"), Lit("5"), SpOpt, Cls({"5", "6", "9"}, 1, 1), Dn(7)>>

KnownCountries == {"egypt", "saudi", "uae", "kuwait"}

PHONE_PATTERNS_BY_COUNTRY(c) ==
  CASE c = "egypt" -> <<EgA, EgB, EgC, EgD>>
    [] c = "saudi" -> <<SaA, SaB, SaC, SaD, SaE>>
    [] c = "uae" -> <<AeA, SaB, AeC, AeD>>
    [] c = "kuwait" -> <<KwA, KwB, KwC>>
    [] OTHER -> <<EgA, EgB, SaA, SaB, AeA, KwA>>

\* The patterns extraction applies for a country: its own, then the catch-all set.
PhonePatternsFor(ctry) ==
  IF ctry # "all"
  THEN PHONE_PATTERNS_BY_COUNTRY(ctry) \o PHONE_PATTERNS_BY_COUNTRY("all")
  ELSE PHONE_PATTERNS_BY_COUNTRY("all")

\* [a-zA-Z0-9._%+-]+@[a-zA-Z0-9.-]+\.[a-zA-Z]{2,}
EmailPattern ==
  <<Cls(Letters \cup AsciiDigits \cup {".", "_", "%", "+", "-"}, 1, -1), Lit("@"),
    Cls(Letters \cup AsciiDigits \cup {".", "-"}, 1, -1), Lit("."), Cls(Letters, 2, -1)>>

CUSTOMER_INTENT_KEYWORDS ==
  <<Ar("mHtAj"), Ar("EAyz"), Ar("AbHv En"), Ar("myn yErf"), Ar("dlwny ElY"),
    Ar("yA ryt Hd"), Ar("Hd yr$Hly"), Ar("Hd yErf"), Ar("tjrbtkm mE"), Ar("Hd jrb")>>

\* re.sub(r'[\s\-]', '', match)
CleanPhone(match) == ReSubEmpty(<<Cls(Space \cup {"-"}, 1, 1)>>, match)

MinPhoneLen == 8
NameMaxLen == 60
NotesMaxLen == 300

\* The matches of every pattern, in pattern order, cleaned.
RECURSIVE CleanMatches(_, _, _)
CleanMatches(patterns, k, text) ==
  IF k > Len(patterns) THEN <<>>
  ELSE LET ms == FindAll(patterns[k], text)
       IN AsSeq([j \in 1..Len(ms) |-> CleanPhone(ms[j])]) \o CleanMatches(patterns, k + 1, text)

(* The inner loop of lines 156-163 over the cleaned matches cs: st holds    *)
(* the phones kept for this result and the call's seen_phones.              *)
RECURSIVE KeepPhones(_, _, _)
KeepPhones(cs, k, st) ==
  IF k > Len(cs) THEN st
  ELSE IF Len(cs[k]) >= MinPhoneLen /\ cs[k] \notin st.seen
  THEN KeepPhones(cs, k + 1, [phones |-> Append(st.phones, cs[k]), seen |-> st.seen \cup {cs[k]}])
  ELSE KeepPhones(cs, k + 1, st)

\* any(kw in text for kw in CUSTOMER_INTENT_KEYWORDS)
HasCustomerIntent(text) ==
  \E k \in 1..Len(CUSTOMER_INTENT_KEYWORDS) : Contains(text, CUSTOMER_INTENT_KEYWORDS[k])

\* re.sub(r'\s*[-|–]\s*.*', '', name)[:60]
NamePattern ==
  <<Cls(Space, 0, -1), Cls({"-", "|", "endash"}, 1, 1), Cls(Space, 0, -1), NotCls({"\n"}, 0, -1)>>
DisplayName(title) == PySlice(ReSubEmpty(NamePattern, title), NameMaxLen)

\* SearchService._detect_phone_country
DetectPhoneCountry(phone) ==
  IF phone = <<>> THEN "unknown"
  ELSE LET clean == ReSubEmpty(<<Cls(Space \cup {"-", "+"}, 1, 1)>>, phone)
       IN IF StartsWith(clean, S("20")) \/ StartsWith(clean, S("01")) THEN "egypt"
          ELSE IF StartsWith(clean, S("966")) \/ StartsWith(clean, S("05")) THEN "saudi"
          ELSE IF StartsWith(clean, S("971")) \/ (StartsWith(clean, S("05")) /\ Len(clean) = 10)
          THEN "uae"
          ELSE IF StartsWith(clean, S("965")) THEN "kuwait"
          ELSE "unknown"

(* A lead whose lead_type looks at the email before the phone.  The code   *)
(* does not do this; LeadTypeMatchesContact fails when it stands in        *)
(* MakeLead's place.                                                       *)
MakeLeadEmailFirst(res, ctry, phones, emails) ==
  [name |-> DisplayName(res.title),
   phone |-> IF phones # <<>> THEN phones[1] ELSE <<>>,
   email |-> IF emails # <<>> THEN emails[1] ELSE <<>>,
   source |-> res.link,
   notes |-> PySlice(res.snippet, NotesMaxLen),
   status |-> "new",
   country |-> IF phones # <<>> THEN DetectPhoneCountry(phones[1]) ELSE ctry,
   lead_type |-> IF emails # <<>> THEN "with_email"
                 ELSE IF phones # <<>> THEN "with_phone" ELSE "potential"]

(* The lead of lines 171-187 for a result with the phones and emails found. *)
MakeLead(res, ctry, phones, emails) ==
  [name |-> DisplayName(res.title),
   phone |-> IF phones # <<>> THEN phones[1] ELSE <<>>,
   email |-> IF emails # <<>> THEN emails[1] ELSE <<>>,
   source |-> res.link,
   notes |-> PySlice(res.snippet, NotesMaxLen),
   status |-> "new",
   country |-> IF phones # <<>> THEN DetectPhoneCountry(phones[1]) ELSE ctry,
   lead_type |-> IF phones # <<>> THEN "with_phone"
                 ELSE IF emails # <<>> THEN "with_email" ELSE "potential"]

(* Lines 165-189 for a result, given what lines 151-163 found in its text:  *)
(* kept = [phones, seen].  raised is set when building the lead raises      *)
(* TypeError (re.sub on a None title, or slicing a None snippet), which     *)
(* ends the call.                                                           *)
Include(st, res, ctry, kept, emails, intent) ==
  IF ~(kept.phones # <<>> \/ emails # <<>> \/ (intent /\ res.link \notin st.seen_urls))
  THEN [st EXCEPT !.seen_phones = kept.seen]
  ELSE IF res.title = None \/ res.snippet = None
  THEN [st EXCEPT !.seen_phones = kept.seen, !.raised = TRUE]
  ELSE [st EXCEPT !.seen_phones = kept.seen,
                  !.seen_urls = @ \cup {res.link},
                  !.leads = Append(@, MakeLead(res, ctry, kept.phones, emails))]

\* f"{result.get('title', '')} {result.get('snippet', '')}"
ResultText(res) == Fmt(res.title) \o <<" ">> \o Fmt(res.snippet)

(* One iteration of the loop of extract_leads_from_results over a result.  *)
(* st = [leads, seen_phones, seen_urls, raised].                            *)
ExtractOne(st, res, ctry, include_no_phone) ==
  Include(st, res, ctry,
          KeepPhones(CleanMatches(PhonePatternsFor(ctry), 1, ResultText(res)), 1,
                     [phones |-> <<>>, seen |-> st.seen_phones]),
          FindAll(EmailPattern, ResultText(res)),
          include_no_phone /\ HasCustomerIntent(ResultText(res)))

RECURSIVE ExtractLoop(_, _, _, _, _)
ExtractLoop(st, results, k, ctry, include_no_phone) ==
  IF k > Len(results) \/ st.raised THEN st
  ELSE ExtractLoop(ExtractOne(st, results[k], ctry, include_no_phone),
                   results, k + 1, ctry, include_no_phone)

\* SearchService.extract_leads_from_results: [leads, raised].
extract_leads_from_results(results, ctry, include_no_phone) ==
  LET st == ExtractLoop([leads |-> <<>>, seen_phones |-> {}, seen_urls |-> {}, raised |-> FALSE],
                        results, 1, ctry, include_no_phone)
  IN [leads |-> IF st.raised THEN <<>> ELSE st.leads, raised |-> st.raised]

\* ------------------------------------------------------------ AIService

\* The concatenation of a sequence of texts (an f-string's parts).
RECURSIVE Cat(_)
Cat(parts) == IF parts = <<>> THEN <<>> ELSE Head(parts) \o Cat(Tail(parts))

\* "t" in double quotes.
Q(t) == <<"\"">> \o t \o <<"\"">>
\* "<keyword> <service>" in double quotes; keyword in Buckwalter.
KW(kw, service) == Q(Ar(kw) \o <<" ">> \o service)
\* "<keyword> <service> <suffix>" in double quotes.
KWS(kw, service, suffix) == Q(Ar(kw) \o <<" ">> \o service \o <<" ">> \o Ar(suffix))
Sp == <<" ">>
Or == S(" OR ")

EgyptPhones == S("(\"010\" OR \"011\" OR \"012\" OR \"015\")")

COUNTRY_CONFIGS(c) ==
  CASE c = "saudi" ->
         [name |-> Ar("AlsEwdyp"),
          phone_patterns |-> S("(\"05\" OR \"9665\" OR \"966\")"),
          sites |-> S("site:opensooq.com OR site:facebook.com OR site:instagram.com OR site:linkedin.com/in"),
          cities |-> <<Ar("AlryAD"), Ar("jdp"), Ar("mkp"), Ar("Almdynp"), Ar("AldmAm"),
                       Ar("Alxbr"), Ar("AlTA}f"), Ar("tbwk"), Ar(">bhA")>>,
          gl |-> "sa"]
    [] c = "uae" ->
         [name |-> Ar("Al<mArAt"),
          phone_patterns |-> S("(\"050\" OR \"055\" OR \"056\" OR \"9714\")"),
          sites |-> S("site:dubizzle.com OR site:facebook.com OR site:instagram.com OR site:linkedin.com/in"),
          cities |-> <<Ar("dby"), Ar(">bwZby"), Ar("Al$Arqp"), Ar("EjmAn"), Ar("AlEyn"), Ar("r>s Alxymp")>>,
          gl |-> "ae"]
    [] c = "kuwait" ->
         [name |-> Ar("Alkwyt"),
          phone_patterns |-> S("(\"965\" OR \"9\" OR \"5\" OR \"6\")"),
          sites |-> S("site:opensooq.com OR site:facebook.com OR site:instagram.com"),
          cities |-> <<Ar("Alkwyt"), Ar("Hwly"), Ar("AlfrwAnyp"), Ar("Al>Hmdy"), Ar("AljhrA'")>>,
          gl |-> "kw"]
    [] OTHER ->
         [name |-> Ar("mSr"),
          phone_patterns |-> EgyptPhones,
          sites |-> S("site:olx.com.eg OR site:facebook.com OR site:instagram.com"),
          cities |-> <<Ar("AlqAhrp"), Ar("Al<skndryp"), Ar("Aljyzp"), Ar("AlmnSwrp"), Ar("TnTA"),
                       Ar(">swAn"), Ar("Al>qSr"), Ar("$rm Al$yx")>>,
          gl |-> "eg"]

\* The insertion order of COUNTRY_CONFIGS.
CountryOrder == <<"egypt", "saudi", "uae", "kuwait">>

Strategies == {"social_media", "local_platforms", "events", "contact_pages", "competitor_monitor"}

\* HUNTING_STRATEGIES[strategy]["sites"], social_media for an unknown strategy.
StrategySites(strategy) ==
  CASE strategy = "local_platforms" -> S("(site:olx.com.eg OR site:opensooq.com OR site:dubizzle.com)")
    [] strategy = "events" -> S("(site:facebook.com OR site:instagram.com)")
    [] strategy = "contact_pages" ->
         S("(\"contact us\" OR \"") \o Ar("AtSl bnA") \o S("\" OR \"") \o Ar("twASl mEnA") \o S("\")")
    [] strategy = "competitor_monitor" -> S("(site:facebook.com OR site:instagram.com)")
    [] OTHER -> S("(site:facebook.com OR site:instagram.com OR site:twitter.com OR site:linkedin.com/in)")

\* The first country, in table order, one of whose cities contains or is contained in city.
RECURSIVE CityScan(_, _)
CityScan(city, k) ==
  IF k > Len(CountryOrder) THEN "none"
  ELSE LET cities == COUNTRY_CONFIGS(CountryOrder[k]).cities
       IN IF \E j \in 1..Len(cities) : Contains(city, cities[j]) \/ Contains(cities[j], city)
          THEN CountryOrder[k]
          ELSE CityScan(city, k + 1)

UpperSeq == S("ABCDEFGHIJKLMNOPQRSTUVWXYZ")
LowerSeq == S("abcdefghijklmnopqrstuvwxyz")
\* str.lower(), on the code points the model's texts hold.
ToLower(t) ==
  AsSeq([i \in 1..Len(t) |->
           IF t[i] \in Upper THEN LowerSeq[CHOOSE k \in 1..Len(UpperSeq) : UpperSeq[k] = t[i]]
           ELSE t[i]])

AnyIn(t, words) == \E k \in 1..Len(words) : Contains(t, words[k])

(* A resolution without the final default: a locality that matches no city *)
(* and no keyword gets no country.  CountryResolutionTotal fails when it    *)
(* stands in the place of detect_country.                                   *)
DetectWithoutDefault(city) ==
  LET city_lower == Strip(ToLower(city))
      hit == CityScan(city, 1)
  IN IF hit # "none" THEN hit
     ELSE IF AnyIn(city_lower, <<Ar("AlryAD"), Ar("jdp"), Ar("mkp"), Ar("AlsEwdyp")>>) THEN "saudi"
     ELSE IF AnyIn(city_lower, <<Ar("dby"), Ar(">bwZby"), Ar("Al$Arqp"), Ar("Al<mArAt")>>) THEN "uae"
     ELSE IF AnyIn(city_lower, <<Ar("Alkwyt"), Ar("Hwly")>>) THEN "kuwait"
     ELSE "none"

\* AIService.detect_country
detect_country(city) ==
  LET city_lower == Strip(ToLower(city))
      hit == CityScan(city, 1)
  IN IF hit # "none" THEN hit
     ELSE IF AnyIn(city_lower, <<Ar("AlryAD"), Ar("jdp"), Ar("mkp"), Ar("AlsEwdyp")>>) THEN "saudi"
     ELSE IF AnyIn(city_lower, <<Ar("dby"), Ar(">bwZby"), Ar("Al$Arqp"), Ar("Al<mArAt")>>) THEN "uae"
     ELSE IF AnyIn(city_lower, <<Ar("Alkwyt"), Ar("Hwly")>>) THEN "kuwait"
     ELSE "egypt"

ServicePrefixes == <<Ar(">nA "), Ar("AnA "), Ar(">Eml k_ "), Ar("AEml k"), Ar("Endy "), Ar("ldy ")>>

\* AIService._extract_service: the first matching prefix is removed, then strip().
RECURSIVE StripPrefix(_, _)
StripPrefix(query, k) ==
  IF k > Len(ServicePrefixes) THEN query
  ELSE IF StartsWith(query, ServicePrefixes[k])
  THEN SubSeq(query, Len(ServicePrefixes[k]) + 1, Len(query))
  ELSE StripPrefix(query, k + 1)
extract_service(query) == Strip(StripPrefix(query, 1))

GoldenKeywordCount == 4

\* AIService.generate_golden_query; country = "" stands for None.
generate_golden_query(query, city, strategy, ctry) ==
  LET c == IF ctry = "" THEN detect_country(city) ELSE ctry
      service == extract_service(query)
      customer_keywords == <<KW("mHtAj", service), KW("EAyz", service), KW("myn yErf", service),
                             KW("dlwny ElY", service), KW("AbHv En", service),
                             KW("yA ryt Hd yr$Hly", service), KWS("Hd yErf", service, "kwys")>>
      top == PySlice(customer_keywords, GoldenKeywordCount)
      joined == Cat(AsSeq([i \in 1..Len(top) |-> IF i = 1 THEN top[i] ELSE Or \o top[i]]))
  IN Cat(<<StrategySites(strategy), S(" ("), joined, S(") "), Q(city), Sp,
           COUNTRY_CONFIGS(c).phone_patterns,
           S(" -site:youtube.com -"), Q(Ar("wZyfp")), S(" -"), Q(Ar("mTlwb")), S(" -"), Q(Ar("$rkp"))>>)

\* AIService.generate_fallback_queries
generate_fallback_queries(query, city, ctry) ==
  LET c == IF ctry = "" THEN detect_country(city) ELSE ctry
      cpp == COUNTRY_CONFIGS(c).phone_patterns
      sv == extract_service(query)
  IN << Cat(<<S("site:facebook.com ("), KW("mHtAj", sv), Or, KW("EAyz", sv), Or, KW("myn yErf", sv),
              S(") "), Q(city), Sp, cpp>>),
        Cat(<<S("site:facebook.com ("), KW("dlwny ElY", sv), Or, KW("yA ryt Hd yr$Hly", sv),
              S(") "), Q(city)>>),
        Cat(<<S("site:instagram.com ("), KW("mHtAj", sv), Or, KW("AbHv En", sv), S(") "), city, Sp, cpp>>),
        Cat(<<KW("Hd jrb", sv), Or, KW("tjrbtkm mE", sv), Sp, city, Sp, cpp>>),
        Cat(<<S("("), KWS("mHtAj", sv, "Drwry"), Or, KWS("EAyz", sv, "kwys"), S(") "), city>>) >>

\* -------------------------------------------- SearchService: the queries

\* phone_patterns_map.get(country, <the Egyptian disjunction>)
phone_patterns_map(ctry) ==
  CASE ctry = "saudi" -> S("(\"05\" OR \"9665\" OR \"966\")")
    [] ctry = "uae" -> S("(\"050\" OR \"055\" OR \"9714\")")
    [] ctry = "kuwait" -> S("(\"965\")")
    [] OTHER -> EgyptPhones

\* country_names.get(country, <Egypt>)
country_names(ctry) ==
  CASE ctry = "saudi" -> Ar("AlsEwdyp")
    [] ctry = "uae" -> Ar("Al<mArAt")
    [] ctry = "kuwait" -> Ar("Alkwyt")
    [] OTHER -> Ar("mSr")

phone_heavy_queries(query, city, ctry) ==
  LET sv == extract_service(query)
      pp == phone_patterns_map(ctry)
  IN << Cat(<<S("site:facebook.com ("), KW("mHtAj", sv), Or, KW("EAyz", sv), S(") "), Q(city), Sp, pp>>),
        Cat(<<S("site:facebook.com ("), KW("myn yErf", sv), Or, KW("dlwny ElY", sv), S(") "), Q(city), Sp, pp>>),
        Cat(<<S("site:instagram.com ("), KW("mHtAj", sv), Or, KW("AbHv En", sv), S(") "), city, Sp, pp>>),
        Cat(<<KW("yA ryt Hd yr$Hly", sv), Or, KWS("Hd yErf", sv, "kwys"), Sp, city>>),
        Cat(<<Q(city), S(" ("), KWS("mHtAj", sv, "Drwry"), Or, KWS("EAyz", sv, "kwys"), S(") "), pp>>),
        Cat(<<KW("Hd jrb", sv), Or, KW("tjrbtkm mE", sv), Sp, city, Sp, pp>>) >>

generic_queries(query, city, ctry) ==
  LET sv == extract_service(query)
      pp == phone_patterns_map(ctry)
      country_name == country_names(ctry)
  IN << Cat(<<KW("mHtAj", sv), Sp, country_name, Sp, pp>>),
        Cat(<<KW("EAyz", sv), Sp, city, Sp, pp>>),
        Cat(<<KWS("myn yErf", sv, "kwys"), Sp, city>>),
        Cat(<<KW("AbHv En", sv), Sp, city, Sp, pp>>),
        Cat(<<KW("Hd yr$Hly", sv), Sp, country_name>>) >>

\* ------------------------------------------------- the search backends
(* A backend's answer to one HTTP request: kind "error" (the request       *)
(* raises: timeout, connection failure), "status" (a non-200 status),      *)
(* "badjson" (status 200 whose body does not parse or has no list where    *)
(* one is read), or "ok" with the items of the payload.  A Serper item is  *)
(* [title, link, snippet], a DuckDuckGo topic is [Text, FirstURL]; a field *)
(* is a text, None (a JSON null) or Missing (the key is absent).           *)
Missing == <<"<missing>">>
TitleMaxLen == 100

\* item.get(key, "")
GetOr(v) == IF v = Missing THEN <<>> ELSE v

\* SearchService.search_duckduckgo: the results, [] on any failure.
RECURSIVE DdgResults(_, _)
DdgResults(topics, k) ==
  IF k > Len(topics) THEN [results |-> <<>>, raised |-> FALSE]
  ELSE LET rest == DdgResults(topics, k + 1)
       IN IF topics[k].Text = Missing THEN rest
          ELSE IF topics[k].Text = None THEN [results |-> <<>>, raised |-> TRUE]
          ELSE [results |-> <<[title |-> PySlice(topics[k].Text, TitleMaxLen),
                               link |-> GetOr(topics[k].FirstURL),
                               snippet |-> topics[k].Text]>> \o rest.results,
                raised |-> rest.raised]
search_duckduckgo(resp, limit) ==
  IF resp.kind # "ok" THEN <<>>
  ELSE LET r == DdgResults(PySlice(resp.items, limit), 1)
       IN IF r.raised THEN <<>> ELSE r.results

\* search_with_country, lines 240-249: the results made of Serper's "organic" list.
SerperResults(serper, limit) ==
  AsSeq([i \in 1..Len(PySlice(serper.items, limit)) |->
           [title |-> GetOr(serper.items[i].title),
            link |-> GetOr(serper.items[i].link),
            snippet |-> GetOr(serper.items[i].snippet)]])

(* A search_with_country that asks Serper a second time before it falls    *)
(* back to DuckDuckGo: three requests for one query.  The code does not do *)
(* this; QueryAndRequestBound fails when it stands in its place.           *)
search_with_retry(has_key, serper, ddg, limit) ==
  IF has_key /\ serper.kind = "ok"
  THEN [results |-> SerperResults(serper, limit),
        calls |-> 1]
  ELSE [results |-> search_duckduckgo(ddg, limit),
        calls |-> IF has_key THEN 3 ELSE 1]

(* SearchService.search_with_country: the results and the number of HTTP   *)
(* requests made.  Serper is asked when the key is configured; its status  *)
(* 200 answer is returned as it is, also when it holds no item; on any     *)
(* other outcome DuckDuckGo is asked.                                      *)
search_with_country(has_key, serper, ddg, limit) ==
  IF has_key /\ serper.kind = "ok"
  THEN [results |-> SerperResults(serper, limit),
        calls |-> 1]
  ELSE [results |-> search_duckduckgo(ddg, limit),
        calls |-> IF has_key THEN 2 ELSE 1]

\* -------------------------------------------- SearchService.hunt_leads

(* An acceptance loop that skips only the candidates whose phone it has    *)
(* seen, and so takes the candidates without any contact too.              *)
(* ReturnedLeadsHaveContact fails when it stands in the place of           *)
(* AcceptLeads.                                                            *)
RECURSIVE AcceptWithoutContact(_, _, _)
AcceptWithoutContact(acc, leads, k) ==
  IF k > Len(leads) THEN acc
  ELSE IF leads[k].phone # <<>> /\ leads[k].phone \in acc.seen_phones
  THEN AcceptWithoutContact(acc, leads, k + 1)
  ELSE AcceptWithoutContact([acc EXCEPT !.all_leads = Append(@, leads[k]),
                                        !.seen_phones = @ \cup ({leads[k].phone} \ {<<>>})],
                            leads, k + 1)

(* The acceptance loop that follows every wave (lines 290-298, repeated at *)
(* 319-327, 339-347 and 367-375): acc = [all_leads, seen_phones,           *)
(* seen_emails].                                                           *)
RECURSIVE AcceptLeads(_, _, _)
AcceptLeads(acc, leads, k) ==
  IF k > Len(leads) THEN acc
  ELSE LET phone == leads[k].phone
           email == leads[k].email
       IN IF phone # <<>> /\ phone \notin acc.seen_phones
          THEN AcceptLeads([acc EXCEPT !.all_leads = Append(@, leads[k]),
                                       !.seen_phones = @ \cup {phone}], leads, k + 1)
          ELSE IF email # <<>> /\ email \notin acc.seen_emails /\ phone = <<>>
          THEN AcceptLeads([acc EXCEPT !.all_leads = Append(@, leads[k]),
                                       !.seen_emails = @ \cup {email}], leads, k + 1)
          ELSE AcceptLeads(acc, leads, k + 1)

\* ----------------------------------------------------- bounded inputs

\* The requested count ranges over -MaxNeg..MaxCount.
MaxCount == 3
MaxNeg == 1
Counts == (0 - MaxNeg)..MaxCount

(* The hunts the model runs: description, locality, strategy and the       *)
(* explicit country ("" for None), as main.py's HuntRequest carries them,  *)
(* and a call of hunt_leads whose query is None, not a str.                *)
Requests ==
  { [query |-> Ar(">nA dktwr"), city |-> Ar("AlqAhrp"), strategy |-> "social_media", country |-> ""],
    [query |-> Ar("mHAmy"), city |-> Ar("dby"), strategy |-> "local_platforms", country |-> ""],
    [query |-> Ar("Tbyb >snAn"), city |-> Ar("AlryAD"), strategy |-> "social_media", country |-> "saudi"],
    [query |-> None, city |-> Ar("AlqAhrp"), strategy |-> "social_media", country |-> ""] }

\* The phones the hunting user already has stored as leads.
ExistingPhoneSets == { {}, {S("01012345678")} }

Item(title, snippet, link) == [title |-> title, snippet |-> snippet, link |-> link]
ItemAhmed == Item(S("Ahmed - Cairo"), S("call 01012345678"), S("u1"))
ItemSara == Item(S("Sara"), S("wa +201012345678"), S("u2"))
ItemOmar == Item(S("Omar"), S("010-9999-9999"), S("u3"))
ItemMona == Item(S("Mona"), S("mail Info@Shop.com"), S("u4"))
ItemPost == Item(S("Post"), Ar("mHtAj dktwr"), S("u5"))
ItemNull == Item(None, S("01122222222"), S("u6"))
ItemNoise == Item(S("Noise"), S("hello"), S("u7"))
ItemAli == Item(S("Ali"), S("01233333333"), S("u8"))
ItemHoda == Item(S("Hoda"), S("01544444444"), S("u9"))
ItemNada == Item(S("Nada"), S("mail info@shop.com"), S("u10"))

\* The "organic" lists Serper may answer with.
SerperPayloads ==
  { <<>>,
    <<ItemAhmed, ItemOmar>>,
    <<ItemSara>>,
    <<ItemMona, ItemPost, ItemNoise>>,
    <<ItemNull>>,
    <<ItemNada>>,
    <<ItemAhmed, ItemOmar, ItemAli, ItemHoda, ItemMona>> }

SerperResponses ==
  { [kind |-> "error", items |-> <<>>], [kind |-> "status", items |-> <<>>],
    [kind |-> "badjson", items |-> <<>>] }
  \cup { [kind |-> "ok", items |-> p] : p \in SerperPayloads }

\* The "RelatedTopics" lists DuckDuckGo may answer with.
DdgPayloads ==
  { <<>>,
    <<[Text |-> S("Omar 01099999999"), FirstURL |-> S("d1")], [Text |-> Missing, FirstURL |-> S("d2")]>>,
    <<[Text |-> S("Ali 01233333333"), FirstURL |-> S("d3")], [Text |-> None, FirstURL |-> S("d4")]>> }

DdgResponses ==
  { [kind |-> "error", items |-> <<>>], [kind |-> "status", items |-> <<>>] }
  \cup { [kind |-> "ok", items |-> p] : p \in DdgPayloads }

\* The limits hunt_leads passes to a search: max_results * 3, then max_results.
Limits == (0 - 3 * MaxNeg)..(3 * MaxCount)

(* What one search_with_country call may return, by key configuration and  *)
(* limit, over every answer of the two backends; and what extraction makes *)
(* of each result list.  Both are computed once.                           *)
SearchOutcomes ==
  [k \in BOOLEAN, l \in Limits |->
     { search_with_country(k, sr, dr, l) : sr \in SerperResponses, dr \in DdgResponses }]

ResultLists == UNION { { o.results : o \in SearchOutcomes[k, l] } : k \in BOOLEAN, l \in Limits }

\* hunt_leads, lines 264-265: the country every later step is given.
hunt_country(city, explicit) == IF explicit = "" THEN detect_country(city) ELSE explicit

ResolvedCountries ==
  { hunt_country(r.city, r.country) : r \in Requests }

Extracted ==
  [rs \in ResultLists, c \in ResolvedCountries |-> extract_leads_from_results(rs, c, TRUE)]

(* Lines 276-285: the golden query.  generate_golden_query raises          *)
(* AttributeError at query.startswith when the query is not a str, and the *)
(* handler builds the query from the strategy's sites; an empty generated  *)
(* query g is replaced.                                                    *)
golden_query(r, ctry, g) ==
  IF r.query = None
  THEN Cat(<<StrategySites(r.strategy), Sp, Q(Fmt(r.query)), Sp, Q(r.city), Sp,
             phone_patterns_map(ctry), S(" -site:youtube.com")>>)
  ELSE IF g = <<>>
  THEN Cat(<<S("site:facebook.com "), Q(r.query), Sp, Q(r.city), Sp, phone_patterns_map(ctry)>>)
  ELSE g

\* The queries of a hunt, by tier, each tier in the order hunt_leads issues it.
QueriesOf(r, ctry) ==
  [golden |-> <<golden_query(r, ctry, generate_golden_query(r.query, r.city, r.strategy, ctry))>>,
   phone_heavy |-> phone_heavy_queries(r.query, r.city, ctry),
   fallback |-> generate_fallback_queries(r.query, r.city, ctry),
   generic |-> generic_queries(r.query, r.city, ctry)]

QueryTable ==
  [r \in Requests |-> QueriesOf(r, IF r.country = "" THEN detect_country(r.city) ELSE r.country)]


\* ------------------------------------------------------ state machine

VARIABLES
  request,          \* query, city, strategy, country of the call
  max_results,      \* the requested count
  serper_key,       \* whether settings.SERPER_API_KEY is configured
  existing_phones,  \* phones of the leads the user has stored already
  pc,               \* position in hunt_leads
  country,          \* the resolved country
  idx,              \* index of the next query of the current tier
  all_leads, seen_phones, seen_emails,
  issued,           \* the search_with_country calls made: tier, index, first backend asked
  net_calls,        \* HTTP requests made to the backends
  empty_only,       \* no search of this call has returned a result so far
  potential_seen,   \* a search of this call has brought a candidate without phone and email
  result,           \* the returned list
  filter_call,      \* a DuplicateChecker.filter_duplicates call: its arguments and locals
  extract_call,     \* extract_leads_from_results calls: their arguments and locals
  endpoint,         \* the hunt endpoints: the request in progress, wallets, stored leads
  cache,            \* ai_service's response cache and the clock
  resolve_call,     \* a country resolution: the locality, the override, the codes obtained
  search_call,      \* a search_with_country call: the backends asked, the answer
  bank,             \* a user's wallet and the requests that read and change it
  chat,             \* a chat session, the users table and the last reply
  guided            \* a guided hunt session

vars == <<request, max_results, serper_key, existing_phones, pc, country, idx,
          all_leads, seen_phones, seen_emails, issued, net_calls, empty_only, potential_seen, result,
          filter_call, extract_call, endpoint, cache, resolve_call, search_call, bank, chat, guided>>

inputs == <<request, max_results, serper_key, existing_phones>>

\* No call of the function is in progress.
NoCall == [pc |-> "idle"]

Tiers == <<"golden", "phone_heavy", "fallback", "generic">>

TierQueries(tier) == QueryTable[request][tier]
QueryText(e) == QueryTable[request][e.tier][e.n]

Init ==
  /\ request \in Requests
  /\ max_results \in Counts
  /\ serper_key \in BOOLEAN
  /\ existing_phones \in ExistingPhoneSets
  /\ pc = "start"
  /\ country = ""
  /\ idx = 1
  /\ all_leads = <<>>
  /\ seen_phones = {}
  /\ seen_emails = {}
  /\ issued = <<>>
  /\ net_calls = 0
  /\ empty_only = TRUE
  /\ potential_seen = FALSE
  /\ result = <<>>
  /\ filter_call = NoCall
  /\ extract_call = NoCall
  /\ endpoint = NoCall
  /\ cache = NoCall
  /\ resolve_call = NoCall
  /\ search_call = NoCall
  /\ bank = NoCall
  /\ chat = NoCall
  /\ guided = NoCall

\* Lines 260-285: the accumulators start empty, the country is resolved.
Start ==
  /\ pc = "start"
  /\ country' = hunt_country(request.city, request.country)
  /\ pc' = "golden"
  /\ UNCHANGED <<inputs, filter_call, extract_call, endpoint, cache, resolve_call, search_call, bank, chat, guided, idx, all_leads, seen_phones, seen_emails, issued, net_calls,
                 empty_only, potential_seen, result>>

\* How many candidates of an extraction carry neither phone nor email.
Potential(leads) == Cardinality({ j \in 1..Len(leads) : leads[j].lead_type = "potential" })

(* What a wave does with the outcome o of its search and the extraction ex *)
(* of o.results: the acceptance loop.  A TypeError raised by extraction     *)
(* leaves hunt_leads.                                                       *)
WaveStep(tier, o, ex, next_pc, next_idx) ==
  LET acc == AcceptLeads([all_leads |-> all_leads, seen_phones |-> seen_phones,
                          seen_emails |-> seen_emails], ex.leads, 1)
  IN /\ issued' = Append(issued, [tier |-> tier, n |-> idx,
                                  backend |-> IF serper_key THEN "serper" ELSE "duckduckgo"])
     /\ net_calls' = net_calls + o.calls
     /\ empty_only' = (empty_only /\ o.results = <<>>)
     /\ potential_seen' = (potential_seen \/ Potential(ex.leads) > 0)
     /\ IF ex.raised
        THEN /\ pc' = "raised"
             /\ UNCHANGED <<idx, all_leads, seen_phones, seen_emails>>
        ELSE /\ pc' = next_pc
             /\ idx' = next_idx
             /\ all_leads' = acc.all_leads
             /\ seen_phones' = acc.seen_phones
             /\ seen_emails' = acc.seen_emails
     /\ UNCHANGED <<inputs, filter_call, extract_call, endpoint, cache, resolve_call, search_call, bank, chat, guided, country, result>>

\* One wave: search_with_country(query, country, limit), extraction, acceptance.
Wave(tier, limit, next_pc, next_idx) ==
  \E o \in SearchOutcomes[serper_key, limit] :
    WaveStep(tier, o, Extracted[o.results, country], next_pc, next_idx)

(* Lines 287-300: the golden wave, then _extract_service(query), which     *)
(* raises AttributeError when the query is not a str.                      *)
GoldenWave ==
  /\ pc = "golden"
  /\ Wave("golden", max_results * 3, IF request.query = None THEN "raised" ELSE "phone_heavy", 1)

(* An iteration of the loop over phone_heavy_queries without the quota     *)
(* test of lines 312-313.  The code does not do this;                      *)
(* QuotaCheckedBeforeQuery fails when it stands in PhoneHeavyQuery's place. *)
PhoneHeavyQueryNoBreak ==
  /\ pc = "phone_heavy"
  /\ idx <= Len(TierQueries("phone_heavy"))
  /\ Wave("phone_heavy", max_results, "phone_heavy", idx + 1)

\* Lines 311-327: one iteration of the loop over phone_heavy_queries.
PhoneHeavyQuery ==
  /\ pc = "phone_heavy"
  /\ idx <= Len(TierQueries("phone_heavy"))
  /\ ~(Len(all_leads) >= max_results)
  /\ Wave("phone_heavy", max_results, "phone_heavy", idx + 1)

\* Lines 311-313: the loop ends, by exhaustion or by break.
PhoneHeavyEnd ==
  /\ pc = "phone_heavy"
  /\ (idx > Len(TierQueries("phone_heavy")) \/ Len(all_leads) >= max_results)
  /\ pc' = "fallback"
  /\ idx' = 1
  /\ UNCHANGED <<inputs, filter_call, extract_call, endpoint, cache, resolve_call, search_call, bank, chat, guided, country, all_leads, seen_phones, seen_emails, issued, net_calls,
                 empty_only, potential_seen, result>>

\* Lines 329-347: one iteration of the loop over the generated fallback queries.
FallbackQuery ==
  /\ pc = "fallback"
  /\ Len(all_leads) < max_results
  /\ idx <= Len(TierQueries("fallback"))
  /\ Wave("fallback", max_results, "fallback", idx + 1)

FallbackEnd ==
  /\ pc = "fallback"
  /\ (idx > Len(TierQueries("fallback")) \/ ~(Len(all_leads) < max_results))
  /\ pc' = "generic"
  /\ idx' = 1
  /\ UNCHANGED <<inputs, filter_call, extract_call, endpoint, cache, resolve_call, search_call, bank, chat, guided, country, all_leads, seen_phones, seen_emails, issued, net_calls,
                 empty_only, potential_seen, result>>

\* Lines 349-375: one iteration of the loop over generic_queries.
GenericQuery ==
  /\ pc = "generic"
  /\ Len(all_leads) < max_results
  /\ idx <= Len(TierQueries("generic"))
  /\ Wave("generic", max_results, "generic", idx + 1)

\* Lines 377-378: return all_leads[:max_results].
Return ==
  /\ pc = "generic"
  /\ (idx > Len(TierQueries("generic")) \/ ~(Len(all_leads) < max_results))
  /\ result' = PySlice(all_leads, max_results)
  /\ pc' = "done"
  /\ UNCHANGED <<inputs, filter_call, extract_call, endpoint, cache, resolve_call, search_call, bank, chat, guided, country, idx, all_leads, seen_phones, seen_emails, issued, net_calls,
                 empty_only, potential_seen>>

Next ==
  \/ Start
  \/ GoldenWave
  \/ PhoneHeavyQuery
  \/ PhoneHeavyEnd
  \/ FallbackQuery
  \/ FallbackEnd
  \/ GenericQuery
  \/ Return

Spec == Init /\ [][Next]_vars

\* hunt_leads is one sequential call: a step that can be taken is taken.
FairSpec == Spec /\ WF_vars(Next)

\* ------------------------------------------------- DuplicateChecker

\* DuplicateChecker._normalize_phone
normalize_phone(phone) ==
  LET p == ReSubEmpty(<<Cls(Space \cup {"-", ".", "(", ")"}, 1, 1)>>, phone)
  IN IF StartsWith(p, S("+2")) THEN SubSeq(p, 3, Len(p))
     ELSE IF StartsWith(p, S("002")) THEN SubSeq(p, 4, Len(p))
     ELSE p

\* A stored or candidate lead, as far as filter_duplicates reads it.
Lead(phone, email) == [phone |-> phone, email |-> email]

\* The leads a call may be handed; at most MaxLeads of them.
MaxLeads == 3
CandidateLeads ==
  { Lead(S("01012345678"), <<>>),
    Lead(S("+201012345678"), <<>>),
    Lead(S("010-1234-5678"), <<>>),
    Lead(S("01099999999"), S("A@B.com")),
    Lead(S("+966501234567"), <<>>),
    Lead(<<>>, S("A@B.com")),
    Lead(<<>>, S("a@b.com")),
    Lead(<<>>, None),
    Lead(<<>>, <<>>) }

LeadLists == UNION { [1..n -> CandidateLeads] : n \in 0..MaxLeads }

\* get_existing_phones: the phone column as stored.
StoredPhoneSets == { {}, {S("01012345678")}, {S("0501234567")} }

\* get_existing_emails: the stored emails, lowercased.
StoredEmailSets == { {}, {S("a@b.com")} }

\* The two classes named DuplicateChecker.
Implementations == { "smart_hunt_service", "guided_hunt_service" }

(* The phone the loop compares: normalized and written back to the lead by *)
(* smart_hunt_service, the value as given by guided_hunt_service.          *)
ComparedPhone(impl, lead) ==
  IF impl = "smart_hunt_service" /\ lead.phone # <<>>
  THEN normalize_phone(lead.phone) ELSE lead.phone

\* The loop compares the email as given: what it would do without lower().
ComparedEmailAsGiven(impl, lead) ==
  IF lead.email = None THEN <<>> ELSE lead.email

\* (lead.get("email", "") or "").lower(), with .strip() in smart_hunt_service.
ComparedEmail(impl, lead) ==
  IF impl = "smart_hunt_service"
  THEN Strip(ToLower(IF lead.email = None THEN <<>> ELSE lead.email))
  ELSE ToLower(IF lead.email = None THEN <<>> ELSE lead.email)

(* The body of the loop for the lead at position k, with the phone and the *)
(* email it compares.                                                      *)
FilterLead(c, k, phone, email) ==
  IF phone # <<>>
  THEN IF phone \in c.existing_phones \/ phone \in c.new_phones
       THEN c
       ELSE [c EXCEPT !.new_phones = @ \cup {phone},
                      !.unique_leads = Append(@, [c.leads[k] EXCEPT !.phone = phone]),
                      !.kept = Append(@, k)]
  ELSE IF email # <<>>
  THEN IF email \in c.existing_emails \/ email \in c.new_emails
       THEN c
       ELSE [c EXCEPT !.new_emails = @ \cup {email},
                      !.unique_leads = Append(@, c.leads[k]),
                      !.kept = Append(@, k)]
  ELSE c

\* The hunt variables while no hunt runs.
HuntIdle ==
  /\ request = [query |-> <<>>, city |-> <<>>, strategy |-> "", country |-> ""]
  /\ max_results = 0
  /\ serper_key = FALSE
  /\ existing_phones = {}
  /\ pc = "idle"
  /\ country = ""
  /\ idx = 1
  /\ all_leads = <<>>
  /\ seen_phones = {}
  /\ seen_emails = {}
  /\ issued = <<>>
  /\ net_calls = 0
  /\ empty_only = TRUE
  /\ potential_seen = FALSE
  /\ result = <<>>

hunt_vars == <<inputs, pc, country, idx, all_leads, seen_phones, seen_emails, issued,
               net_calls, empty_only, potential_seen, result>>

(* filter_duplicates(user_id, leads) up to its loop: the stored phones and *)
(* emails are read, the accumulators are empty.  given is the list as it   *)
(* was passed, kept the positions of the leads the call has kept.          *)
FilterInit ==
  /\ HuntIdle
  /\ extract_call = NoCall
  /\ endpoint = NoCall
  /\ cache = NoCall
  /\ resolve_call = NoCall
  /\ search_call = NoCall
  /\ bank = NoCall
  /\ chat = NoCall
  /\ guided = NoCall
  /\ \E impl \in Implementations, ls \in LeadLists,
        ep \in StoredPhoneSets, ee \in StoredEmailSets :
       filter_call = [pc |-> "loop", impl |-> impl, leads |-> AsSeq(ls),
                      given |-> AsSeq(ls), k |-> 1,
                      existing_phones |-> ep, existing_emails |-> ee,
                      unique_leads |-> <<>>, new_phones |-> {}, new_emails |-> {},
                      kept |-> <<>>]

\* One iteration of `for lead in leads`.
FilterIteration ==
  /\ filter_call.pc = "loop"
  /\ filter_call.k <= Len(filter_call.leads)
  /\ filter_call' =
       [FilterLead(filter_call, filter_call.k,
                   ComparedPhone(filter_call.impl, filter_call.leads[filter_call.k]),
                   ComparedEmail(filter_call.impl, filter_call.leads[filter_call.k]))
          EXCEPT !.k = @ + 1,
                 !.leads[filter_call.k].phone =
                    ComparedPhone(filter_call.impl, filter_call.leads[filter_call.k])]
  /\ UNCHANGED <<hunt_vars, extract_call, endpoint, cache, resolve_call, search_call, bank, chat, guided>>

\* return unique_leads
FilterReturn ==
  /\ filter_call.pc = "loop"
  /\ filter_call.k > Len(filter_call.leads)
  /\ filter_call' = [filter_call EXCEPT !.pc = "done"]
  /\ UNCHANGED <<hunt_vars, extract_call, endpoint, cache, resolve_call, search_call, bank, chat, guided>>

FilterNext ==
  \/ FilterIteration
  \/ FilterReturn

FilterSpec == FilterInit /\ [][FilterNext]_vars

\* ------------------------------------- extract_leads_from_results calls

ItemAhmedAgain == Item(S("Ahmed | page"), S("tel 01012345678"), S("u11"))
ItemReem == Item(S("Reem"), S("01055555555 reem@x.com"), S("u12"))
ItemShop == Item(S("Shop"), S("01012345678 01055555555"), S("u13"))

\* The result lists a call may be handed; at most MaxResults results.
MaxResults == 3
ExtractItems == { ItemAhmed, ItemAhmedAgain, ItemReem, ItemMona, ItemPost, ItemNull, ItemShop }
ExtractLists == UNION { [1..n -> ExtractItems] : n \in 0..MaxResults }

\* The country argument: a resolved country, or the default "all".
ExtractCountries == { "egypt", "all" }

(* What lines 152-167 find in the text of a result: the cleaned phone      *)
(* matches in pattern order, the emails, the customer intent.              *)
TextFinds(res, ctry) ==
  [cleaned |-> CleanMatches(PhonePatternsFor(ctry), 1, ResultText(res)),
   emails |-> FindAll(EmailPattern, ResultText(res)),
   intent |-> HasCustomerIntent(ResultText(res))]

Finds == [res \in ExtractItems, c \in ExtractCountries |-> TextFinds(res, c)]

\* ExtractOne, given what the text of the result holds.
ExtractWith(st, res, ctry, include_no_phone, f) ==
  Include(st, res, ctry,
          KeepPhones(f.cleaned, 1, [phones |-> <<>>, seen |-> st.seen_phones]),
          f.emails, include_no_phone /\ f.intent)

\* The locals of the call c, as ExtractOne takes them.
Locals(c) ==
  [leads |-> c.leads, seen_phones |-> c.seen_phones, seen_urls |-> c.seen_urls,
   raised |-> FALSE]

(* The call after an iteration that forgets the phones it has seen.  The   *)
(* code does not do this; CallPhonesDistinct fails when it stands in       *)
(* AfterResult's place.                                                    *)
AfterResultForgettingPhones(c, st) ==
  IF st.raised THEN [c EXCEPT !.pc = "raised"]
  ELSE [c EXCEPT !.k = @ + 1, !.leads = st.leads, !.seen_phones = {},
                 !.seen_urls = st.seen_urls]

(* The call c after an iteration that left the locals st: the loop goes on *)
(* with them, or the TypeError leaves the function.                        *)
AfterResult(c, st) ==
  IF st.raised THEN [c EXCEPT !.pc = "raised"]
  ELSE [c EXCEPT !.k = @ + 1, !.leads = st.leads, !.seen_phones = st.seen_phones,
                 !.seen_urls = st.seen_urls]

\* What a call that has ended gave its caller.
Outcome(c) ==
  [raised |-> c.pc = "raised", leads |-> IF c.pc = "raised" THEN <<>> ELSE c.leads]

(* extract_leads_from_results(results, country, include_no_phone) at its   *)
(* loop, lines 142-144 done.  given is the list as it was passed, call the *)
(* number of the call, first the outcome of the first call.                *)
ExtractInit ==
  /\ HuntIdle
  /\ filter_call = NoCall
  /\ endpoint = NoCall
  /\ cache = NoCall
  /\ resolve_call = NoCall
  /\ search_call = NoCall
  /\ bank = NoCall
  /\ chat = NoCall
  /\ guided = NoCall
  /\ \E rs \in ExtractLists, c \in ExtractCountries, f \in BOOLEAN :
       extract_call = [pc |-> "loop", call |-> 1, results |-> AsSeq(rs), given |-> AsSeq(rs),
                       country |-> c, include_no_phone |-> f, k |-> 1,
                       leads |-> <<>>, seen_phones |-> {}, seen_urls |-> {},
                       first |-> [raised |-> FALSE, leads |-> <<>>]]

\* Lines 152-189: one iteration of `for result in results`.
ExtractResult ==
  /\ extract_call.pc = "loop"
  /\ extract_call.k <= Len(extract_call.results)
  /\ extract_call' =
       AfterResult(extract_call,
                   ExtractWith(Locals(extract_call), extract_call.results[extract_call.k],
                               extract_call.country, extract_call.include_no_phone,
                               Finds[extract_call.results[extract_call.k], extract_call.country]))
  /\ UNCHANGED <<hunt_vars, filter_call, endpoint, cache, resolve_call, search_call, bank, chat, guided>>

\* Line 191: return leads.
ExtractReturn ==
  /\ extract_call.pc = "loop"
  /\ extract_call.k > Len(extract_call.results)
  /\ extract_call' = [extract_call EXCEPT !.pc = "returned"]
  /\ UNCHANGED <<hunt_vars, filter_call, endpoint, cache, resolve_call, search_call, bank, chat, guided>>

(* A second call with the same arguments whose seen_phones and seen_urls   *)
(* are those the first call left.  The code does not do this;              *)
(* SecondCallSame fails when it stands in ExtractAgain's place.            *)
ExtractAgainKeepingSeen ==
  /\ extract_call.pc \in {"returned", "raised"}
  /\ extract_call.call = 1
  /\ extract_call' = [extract_call EXCEPT !.pc = "loop", !.call = 2, !.k = 1,
                                          !.leads = <<>>,
                                          !.first = Outcome(extract_call)]
  /\ UNCHANGED <<hunt_vars, filter_call, endpoint, cache, resolve_call, search_call, bank, chat, guided>>

(* The caller calls again with the same arguments: lines 142-144 make new  *)
(* locals.                                                                 *)
ExtractAgain ==
  /\ extract_call.pc \in {"returned", "raised"}
  /\ extract_call.call = 1
  /\ extract_call' = [extract_call EXCEPT !.pc = "loop", !.call = 2, !.k = 1,
                                          !.leads = <<>>, !.seen_phones = {},
                                          !.seen_urls = {},
                                          !.first = Outcome(extract_call)]
  /\ UNCHANGED <<hunt_vars, filter_call, endpoint, cache, resolve_call, search_call, bank, chat, guided>>

ExtractNext ==
  \/ ExtractResult
  \/ ExtractReturn
  \/ ExtractAgain

ExtractSpec == ExtractInit /\ [][ExtractNext]_vars

\* ------------------------------------------------- the hunt endpoints

\* settings.HUNT_COST, and the range the chat flow clamps a count to.
HUNT_COST == 20
ClampMin == 5
ClampMax == 50
\* The lower limit of HuntRequest.validate_max, and the chat flow's default.
ValidateMin == 1
DefaultCount == 20

\* A user makes at most MaxHunts requests.
MaxHunts == 2

\* The counts a client sends; NaN is a chat message without a digit.
NaN == 0 - 1000
RequestCounts == { 0 - 1, 0, 1, 4, 5, 50, 51 }
ChatCounts == RequestCounts \cup { NaN }

\* The wallet balances a hunting user starts with.
Wallets == { 0, HUNT_COST, 2 * HUNT_COST }

(* What hunt_leads may give its caller: an exception, or a list of leads   *)
(* with pairwise different phones, each with a phone or an email.          *)
LeadP == Lead(S("01012345678"), <<>>)
LeadQ == Lead(S("01099999999"), S("a@b.com"))
LeadE == Lead(<<>>, S("a@b.com"))
HuntReturns ==
  { <<>> } \cup { <<l>> : l \in {LeadP, LeadQ, LeadE} }
    \cup { p \in {LeadP, LeadQ, LeadE} \X {LeadP, LeadQ, LeadE} : p[1] # p[2] }
HuntOutcomes ==
  { [raised |-> TRUE, leads |-> <<>>] } \cup { [raised |-> FALSE, leads |-> ls] : ls \in HuntReturns }

\* The rows of the leads table when the hunting user "a" arrives.
Row(user_id, lead) == [user_id |-> user_id, phone |-> lead.phone, email |-> lead.email]
StoredTables == { <<>>, <<Row("b", LeadP)>>, <<Row("a", LeadQ)>> }

\* database.DB_TYPE with a PostgreSQL connection, or the LOCAL_DB fallback.
DbTypes == { "replit_pg", "local" }

\* filter_duplicates as a function of the stored phones and emails.
RECURSIVE FilterLoop(_, _, _)
FilterLoop(impl, c, k) ==
  IF k > Len(c.leads) THEN c
  ELSE FilterLoop(impl,
                  FilterLead(c, k, ComparedPhone(impl, c.leads[k]), ComparedEmail(impl, c.leads[k])),
                  k + 1)

filter_duplicates(impl, leads, ep, ee) ==
  FilterLoop(impl, [leads |-> leads, existing_phones |-> ep, existing_emails |-> ee,
                    unique_leads |-> <<>>, new_phones |-> {}, new_emails |-> {},
                    kept |-> <<>>], 1).unique_leads

(* get_existing_phones of smart_hunt_service on PostgreSQL: the            *)
(* phone_number of every row, whoever owns it.                             *)
get_existing_phones(table) ==
  { table[i].phone : i \in { j \in 1..Len(table) : table[j].phone # <<>> } }

\* get_existing_emails: the lowercased emails of the user's rows.
get_existing_emails(table, user_id) ==
  { ToLower(table[i].email) :
      i \in { j \in 1..Len(table) : table[j].user_id = user_id /\ table[j].email # <<>> } }

\* UserService.check_balance
check_balance(e, cost) == e.is_admin \/ e.wallet >= cost

\* UserService.deduct_balance: the wallet afterwards.
deduct_balance(e, cost) ==
  IF ~e.is_admin /\ e.wallet >= cost THEN e.wallet - cost ELSE e.wallet

(* The wallet after a hunt that is billed whatever it found.  The code     *)
(* does not do this; BillingFollowsResult fails when it stands in Billed's *)
(* place.                                                                  *)
BilledAlways(e, leads) == deduct_balance(e, HUNT_COST)

\* `if leads: ... UserService.deduct_balance(user_id, settings.HUNT_COST)`
Billed(e, leads) == IF leads # <<>> THEN deduct_balance(e, HUNT_COST) ELSE e.wallet

\* int(re.sub(r'\D', '', message)) clamped, 20 when there is no digit.
ChatCount(n) ==
  IF n = NaN THEN DefaultCount
  ELSE LET digits == IF n < 0 THEN 0 - n ELSE n
       IN IF digits < ClampMin THEN ClampMin ELSE IF digits > ClampMax THEN ClampMax ELSE digits

\* HuntRequest.validate_max of app/schemas/requests.py: min(max(1, v), 50).
validate_max(v) ==
  IF v < ValidateMin THEN ValidateMin ELSE IF v > ClampMax THEN ClampMax ELSE v

(* The service before a request: the store, the wallet of user "a", and    *)
(* nothing answered yet.                                                   *)
EndpointInit ==
  /\ HuntIdle
  /\ filter_call = NoCall
  /\ extract_call = NoCall
  /\ cache = NoCall
  /\ resolve_call = NoCall
  /\ search_call = NoCall
  /\ bank = NoCall
  /\ chat = NoCall
  /\ guided = NoCall
  /\ \E t \in StoredTables, w \in Wallets, adm \in BOOLEAN, db \in DbTypes :
       endpoint = [pc |-> "waiting", db_type |-> db, table |-> t, wallet |-> w, is_admin |-> adm,
                   hunts |-> 0, path |-> "", count |-> 0, hunted |-> <<>>, leads |-> <<>>,
                   before |-> [wallet |-> w, table |-> t],
                   response |-> [status |-> "", tokens_used |-> 0, leads |-> <<>>]]

(* A request arrives on a path with the count the path hands to            *)
(* hunt_leads: the balance check, then 402 or the hunt.                    *)
Arrive(path, count) ==
  /\ endpoint.pc = "waiting"
  /\ endpoint.hunts < MaxHunts
  /\ endpoint' =
       IF check_balance(endpoint, HUNT_COST)
       THEN [endpoint EXCEPT !.pc = "hunting", !.path = path, !.count = count,
                             !.hunted = <<>>, !.leads = <<>>,
                             !.before = [wallet |-> endpoint.wallet, table |-> endpoint.table],
                             !.response = [status |-> "", tokens_used |-> 0, leads |-> <<>>]]
       ELSE [endpoint EXCEPT !.hunts = @ + 1, !.path = path, !.count = count,
                             !.hunted = <<>>, !.leads = <<>>,
                             !.before = [wallet |-> endpoint.wallet, table |-> endpoint.table],
                             !.response = [status |-> "402", tokens_used |-> 0, leads |-> <<>>]]
  /\ UNCHANGED <<hunt_vars, filter_call, extract_call, cache, resolve_call, search_call, bank, chat, guided>>

\* main.py: POST /api/hunt/{user_id}; HuntRequest has no validator.
ApiHunt == \E n \in RequestCounts : Arrive("api_hunt", n)

\* app/api/routes/chat.py: POST /hunt/{user_id}; validate_max.
RoutesHunt == \E n \in RequestCounts : Arrive("routes_hunt", validate_max(n))

\* unified_chat_service: the "count" step of the pending hunt_leads action.
ChatHunt == \E n \in ChatCounts : Arrive("chat_flow", ChatCount(n))

\* The answer of a path to an exception: caught, or an HTTP 500.
Failed(e) ==
  [e EXCEPT !.pc = "waiting", !.hunts = @ + 1, !.leads = <<>>,
            !.response = [status |-> IF e.path = "api_hunt" THEN "200"
                                     ELSE IF e.path = "chat_flow" THEN "503" ELSE "500",
                          tokens_used |-> 0, leads |-> <<>>]]

\* SearchService.hunt_leads returns, or raises.
HuntDone ==
  /\ endpoint.pc = "hunting"
  /\ \E o \in HuntOutcomes :
       endpoint' =
         IF o.raised THEN Failed(endpoint)
         ELSE [endpoint EXCEPT !.pc = IF endpoint.path = "chat_flow" THEN "filtering" ELSE "storing",
                               !.hunted = o.leads, !.leads = o.leads]
  /\ UNCHANGED <<hunt_vars, filter_call, extract_call, cache, resolve_call, search_call, bank, chat, guided>>

(* unified_chat_service 379-380: DuplicateChecker.filter_duplicates.  On   *)
(* LOCAL_DB, whose "leads" is a list, get_existing_phones raises           *)
(* AttributeError at .items().                                             *)
FilterStep ==
  /\ endpoint.pc = "filtering"
  /\ endpoint' =
       IF endpoint.db_type = "local" THEN Failed(endpoint)
       ELSE [endpoint EXCEPT !.pc = "storing",
                             !.leads = filter_duplicates("smart_hunt_service", endpoint.leads,
                                                         get_existing_phones(endpoint.table),
                                                         get_existing_emails(endpoint.table, "a"))]
  /\ UNCHANGED <<hunt_vars, filter_call, extract_call, cache, resolve_call, search_call, bank, chat, guided>>

(* `if leads:` add_leads_batch and deduct_balance; then the response with  *)
(* tokens_used.                                                            *)
StoreAndBill ==
  /\ endpoint.pc = "storing"
  /\ endpoint' =
       [endpoint EXCEPT
          !.pc = "waiting", !.hunts = @ + 1,
          !.table = IF endpoint.leads # <<>>
                    THEN @ \o AsSeq([i \in 1..Len(endpoint.leads) |-> Row("a", endpoint.leads[i])])
                    ELSE @,
          !.wallet = Billed(endpoint, endpoint.leads),
          !.response = [status |-> "200",
                        tokens_used |-> IF endpoint.leads # <<>> THEN HUNT_COST ELSE 0,
                        leads |-> endpoint.leads]]
  /\ UNCHANGED <<hunt_vars, filter_call, extract_call, cache, resolve_call, search_call, bank, chat, guided>>

EndpointNext ==
  \/ ApiHunt
  \/ RoutesHunt
  \/ ChatHunt
  \/ HuntDone
  \/ FilterStep
  \/ StoreAndBill

EndpointSpec == EndpointInit /\ [][EndpointNext]_vars

\* ------------------------------------------------- country resolution

\* How many times a resolution is repeated on one locality.
MaxResolves == 3

(* The localities a caller passes: none, blank, cities of each country as   *)
(* they are configured, a city inside a longer text, a fragment of a city   *)
(* name, the keywords of the second scan, and texts that match nothing.     *)
Localities ==
  { <<>>, S(" "), Ar("AlqAhrp"), Ar("dby"), Ar("AlryAD"), Ar("Alkwyt"), Ar("Hwly"),
    Ar("AlsEwdyp"), Ar("Al<mArAt"), Ar("mdynp dby"), Ar("Al"), S("  ") \o Ar("mkp"),
    S("Paris"), S("CAIRO"), Ar("bArys") }

\* The country argument of hunt_leads; "" stands for None.
Overrides == {"", "egypt", "saudi", "uae", "kuwait", "france", "all"}

\* search_with_country, lines 215-221: the region sent to Serper.
country_gl(c) ==
  CASE c = "egypt" -> "eg"
    [] c = "saudi" -> "sa"
    [] c = "uae" -> "ae"
    [] c = "kuwait" -> "kw"
    [] OTHER -> "eg"

\* AIService.COUNTRY_CONFIGS.get(c, COUNTRY_CONFIGS["egypt"]): the entry read.
ConfigKey(c) == IF c \in KnownCountries THEN c ELSE "egypt"

\* PHONE_PATTERNS_BY_COUNTRY.get(c, PHONE_PATTERNS_BY_COUNTRY["all"]): the entry read.
PatternKey(c) == IF c \in KnownCountries THEN c ELSE "all"

(* What the steps of a hunt make of the country c they are given: the       *)
(* configuration query synthesis reads, the region the search sends, the    *)
(* phone patterns extraction applies.                                       *)
UsedFor(c) ==
  [country |-> c, config |-> ConfigKey(c), gl |-> country_gl(c), patterns |-> PatternKey(c)]

ResolveInit ==
  /\ HuntIdle
  /\ filter_call = NoCall
  /\ extract_call = NoCall
  /\ endpoint = NoCall
  /\ cache = NoCall
  /\ search_call = NoCall
  /\ bank = NoCall
  /\ chat = NoCall
  /\ guided = NoCall
  /\ resolve_call \in [pc : {"ready"}, city : Localities, explicit : Overrides,
                       codes : {<<>>}, used : {UsedFor("")}]

\* One more AIService.detect_country(city) call.
ResolveDetect ==
  /\ resolve_call.pc \in {"ready", "resolved"}
  /\ Len(resolve_call.codes) < MaxResolves
  /\ resolve_call' = [resolve_call EXCEPT !.codes = Append(@, detect_country(resolve_call.city))]
  /\ UNCHANGED <<hunt_vars, filter_call, extract_call, endpoint, cache, search_call, bank, chat, guided>>

\* hunt_leads resolves the country and hands it to its steps.
ResolveHunt ==
  /\ resolve_call.pc = "ready"
  /\ resolve_call' = [resolve_call EXCEPT
                        !.pc = "resolved",
                        !.used = UsedFor(hunt_country(resolve_call.city, resolve_call.explicit))]
  /\ UNCHANGED <<hunt_vars, filter_call, extract_call, endpoint, cache, search_call, bank, chat, guided>>

ResolveNext ==
  \/ ResolveDetect
  \/ ResolveHunt

ResolveSpec == ResolveInit /\ [][ResolveNext]_vars

\* ------------------------------------------------ the response cache

CACHE_TTL == 3600
CacheCap == 100

\* How many calls and clock advances a run of the cache makes.
MaxOps == 4

\* The keys looked up and stored: one the filled cache holds, two it does not.
CacheKeys == {1, CacheCap + 1, CacheCap + 2}
Responses == {"r1", "r2"}
Miss == "<None>"

(* AI_CACHE as the dict keeps it: the entries in insertion order.  A cache  *)
(* that n calls of cache_response have filled, one second apart: in the     *)
(* order of the calls, all within one second, or with the first key stored  *)
(* again by the last call.                                                  *)
CacheShapes == {"ascending", "equal", "refreshed"}
Prefill(n, shape) ==
  [k \in 1..n |->
     [key |-> k, response |-> "r1",
      timestamp |-> CASE shape = "equal" -> n
                      [] shape = "refreshed" /\ k = 1 -> n
                      [] OTHER -> k]]

\* The position of key in the dict, 0 when it is absent.
IndexOf(entries, key) ==
  IF \E i \in 1..Len(entries) : entries[i].key = key
  THEN CHOOSE i \in 1..Len(entries) : entries[i].key = key
  ELSE 0

\* del AI_CACHE[key] for the key at position i.
RemoveAt(entries, i) == SubSeq(entries, 1, i - 1) \o SubSeq(entries, i + 1, Len(entries))

\* min(AI_CACHE.keys(), key=timestamp): the first of the oldest entries.
OldestIndex(entries) ==
  CHOOSE i \in 1..Len(entries) :
    \A j \in 1..Len(entries) :
      \/ entries[i].timestamp < entries[j].timestamp
      \/ entries[i].timestamp = entries[j].timestamp /\ i <= j

(* A lookup that returns what it finds, whatever its age.                   *)
(* CacheRespectsTtl fails when it stands in the place of                    *)
(* get_cached_response.                                                     *)
GetIgnoringAge(entries, now, key) ==
  LET i == IndexOf(entries, key)
  IN IF i = 0 THEN [entries |-> entries, returned |-> Miss]
     ELSE [entries |-> entries, returned |-> entries[i].response]

\* get_cached_response: the cache after the lookup and the value returned.
get_cached_response(entries, now, key) ==
  LET i == IndexOf(entries, key)
  IN IF i = 0 THEN [entries |-> entries, returned |-> Miss]
     ELSE IF now - entries[i].timestamp < CACHE_TTL
     THEN [entries |-> entries, returned |-> entries[i].response]
     ELSE [entries |-> RemoveAt(entries, i), returned |-> Miss]

\* AI_CACHE[key] = {...}: a stored key keeps its place, a new one goes last.
Assign(entries, now, key, response) ==
  LET i == IndexOf(entries, key)
      e == [key |-> key, response |-> response, timestamp |-> now]
  IN IF i = 0 THEN Append(entries, e) ELSE [entries EXCEPT ![i] = e]

(* An insertion that never evicts.  CacheBounded fails when it stands in    *)
(* the place of cache_response.                                             *)
CacheWithoutEviction(entries, now, key, response) ==
  [entries |-> Assign(entries, now, key, response), evicted |-> <<>>]

\* cache_response: the cache after the insertion and the entry evicted.
cache_response(entries, now, key, response) ==
  LET stored == Assign(entries, now, key, response)
  IN IF Len(stored) > CacheCap
     THEN [entries |-> RemoveAt(stored, OldestIndex(stored)),
           evicted |-> <<stored[OldestIndex(stored)]>>]
     ELSE [entries |-> stored, evicted |-> <<>>]

NoOp == [op |-> "none", key |-> 0, present |-> FALSE, age |-> 0, returned |-> Miss,
         evicted |-> <<>>, size_before |-> 0]

CacheInit ==
  /\ HuntIdle
  /\ filter_call = NoCall
  /\ extract_call = NoCall
  /\ endpoint = NoCall
  /\ resolve_call = NoCall
  /\ search_call = NoCall
  /\ bank = NoCall
  /\ chat = NoCall
  /\ guided = NoCall
  /\ \E n \in {0, CacheCap - 1, CacheCap} : \E shape \in CacheShapes :
       cache = [pc |-> "ready", now |-> n, ops |-> 0, entries |-> Prefill(n, shape), last |-> NoOp]

\* time.time() moves on between two calls.
CacheTick ==
  /\ cache.pc = "ready"
  /\ cache.ops < MaxOps
  /\ \E d \in {1, CACHE_TTL - 1} :
       cache' = [cache EXCEPT !.now = @ + d, !.ops = @ + 1]
  /\ UNCHANGED <<hunt_vars, filter_call, extract_call, endpoint, resolve_call, search_call, bank, chat, guided>>

CacheGet ==
  /\ cache.pc = "ready"
  /\ cache.ops < MaxOps
  /\ \E key \in CacheKeys :
       LET i == IndexOf(cache.entries, key)
           r == get_cached_response(cache.entries, cache.now, key)
       IN cache' = [cache EXCEPT
                      !.ops = @ + 1,
                      !.entries = r.entries,
                      !.last = [op |-> "get", key |-> key, present |-> i # 0,
                                age |-> IF i = 0 THEN 0 ELSE cache.now - cache.entries[i].timestamp,
                                returned |-> r.returned, evicted |-> <<>>,
                                size_before |-> Len(cache.entries)]]
  /\ UNCHANGED <<hunt_vars, filter_call, extract_call, endpoint, resolve_call, search_call, bank, chat, guided>>

CachePut ==
  /\ cache.pc = "ready"
  /\ cache.ops < MaxOps
  /\ \E key \in CacheKeys : \E response \in Responses :
       LET r == cache_response(cache.entries, cache.now, key, response)
       IN cache' = [cache EXCEPT
                      !.ops = @ + 1,
                      !.entries = r.entries,
                      !.last = [op |-> "put", key |-> key,
                                present |-> IndexOf(cache.entries, key) # 0,
                                age |-> 0, returned |-> Miss, evicted |-> r.evicted,
                                size_before |-> Len(cache.entries)]]
  /\ UNCHANGED <<hunt_vars, filter_call, extract_call, endpoint, resolve_call, search_call, bank, chat, guided>>

CacheNext ==
  \/ CacheTick
  \/ CacheGet
  \/ CachePut

CacheSpec == CacheInit /\ [][CacheNext]_vars

\* ------------------------------------- search_with_country, step by step

(* A search that goes to DuckDuckGo at once, also when Serper is            *)
(* configured.  BackendPriority fails when it stands in the place of        *)
(* NextBackend.                                                             *)
DuckDuckGoFirst(has_key, serper, asked) ==
  IF asked = <<>> THEN "duckduckgo" ELSE "none"

(* The backend search_with_country asks next, given those it has asked:     *)
(* Serper when the key is set (line 223), DuckDuckGo when it is not, or     *)
(* when Serper raised, answered with another status than 200, or sent a     *)
(* body that is no JSON (lines 239, 251, 254).                              *)
NextBackend(has_key, serper, asked) ==
  IF asked = <<>> THEN (IF has_key THEN "serper" ELSE "duckduckgo")
  ELSE IF asked = <<"serper">> /\ serper.kind # "ok" THEN "duckduckgo"
  ELSE "none"

SearchInit ==
  /\ HuntIdle
  /\ filter_call = NoCall
  /\ extract_call = NoCall
  /\ endpoint = NoCall
  /\ cache = NoCall
  /\ resolve_call = NoCall
  /\ bank = NoCall
  /\ chat = NoCall
  /\ guided = NoCall
  /\ search_call \in [pc : {"searching"}, has_key : BOOLEAN, serper : SerperResponses,
                      ddg : DdgResponses, limit : Limits, asked : {<<>>}, results : {<<>>}]

\* Lines 223-252: the request to Serper and what is made of its answer.
AskSerper ==
  /\ search_call.pc = "searching"
  /\ NextBackend(search_call.has_key, search_call.serper, search_call.asked) = "serper"
  /\ search_call' =
       [search_call EXCEPT
          !.asked = Append(@, "serper"),
          !.pc = IF search_call.serper.kind = "ok" THEN "returned" ELSE "searching",
          !.results = IF search_call.serper.kind = "ok"
                      THEN SerperResults(search_call.serper, search_call.limit)
                      ELSE <<>>]
  /\ UNCHANGED <<hunt_vars, filter_call, extract_call, endpoint, cache, resolve_call, bank, chat, guided>>

\* Line 254: search_duckduckgo is called and its list returned.
AskDuckDuckGo ==
  /\ search_call.pc = "searching"
  /\ NextBackend(search_call.has_key, search_call.serper, search_call.asked) = "duckduckgo"
  /\ search_call' =
       [search_call EXCEPT
          !.asked = Append(@, "duckduckgo"),
          !.pc = "returned",
          !.results = search_duckduckgo(search_call.ddg, search_call.limit)]
  /\ UNCHANGED <<hunt_vars, filter_call, extract_call, endpoint, cache, resolve_call, bank, chat, guided>>

SearchNext ==
  \/ AskSerper
  \/ AskDuckDuckGo

SearchSpec == SearchInit /\ [][SearchNext]_vars

\* ------------------------------------------------- the wallet of a user

CHAT_COST == 2
DEFAULT_BALANCE == 100

\* How many login, chat and balance operations a run makes beside its hunts.
MaxBankOps == 2

\* The hunt requests of the user that may be in progress together.
HuntRequests == {1, 2}

\* The amounts an admin sends to /api/admin/balance or writes in the chat.
Amounts == { 0 - 30, 20 }

\* UserService.get_or_create: a user that has no row gets one.
get_or_create(b) ==
  IF b.exists THEN b
  ELSE [b EXCEPT !.exists = TRUE, !.wallet = DEFAULT_BALANCE, !.initial = DEFAULT_BALANCE]

\* UserService.add_balance: the wallet afterwards.
add_balance(b, amount) == b.wallet + amount

(* main.py update_user_balance, action "set": on Postgres the column is    *)
(* written; on the local store the difference is added or deducted.        *)
set_balance(b, amount) ==
  IF b.db_type = "replit_pg" THEN amount
  ELSE IF amount - b.wallet > 0 THEN add_balance(b, amount - b.wallet)
  ELSE IF amount - b.wallet < 0 THEN deduct_balance(b, b.wallet - amount)
  ELSE b.wallet

NoRequest == [pc |-> "idle", leads |-> FALSE]

(* The user's row, the server processes that share it (the local store is  *)
(* the memory of one process), and the hunt requests.  A request handler   *)
(* has no await: inside one process it runs to its end before the next     *)
(* request is taken; two processes run their handlers side by side.        *)
BankInit ==
  /\ HuntIdle
  /\ filter_call = NoCall
  /\ extract_call = NoCall
  /\ endpoint = NoCall
  /\ cache = NoCall
  /\ resolve_call = NoCall
  /\ search_call = NoCall
  /\ chat = NoCall
  /\ guided = NoCall
  /\ \E db \in DbTypes, n \in {1, 2}, ex \in BOOLEAN, adm \in BOOLEAN, w \in Wallets :
       /\ db = "local" => n = 1
       /\ ~ex => w = 0
       /\ bank = [pc |-> "open", db_type |-> db, workers |-> n, exists |-> ex,
                  is_admin |-> adm, wallet |-> w, initial |-> w, adjusted |-> FALSE,
                  ops |-> 0, req |-> [r \in HuntRequests |-> NoRequest],
                  delivered |-> 0, deductions |-> 0,
                  last |-> [op |-> "none", deducts |-> FALSE, ok |-> TRUE, before |-> w]]

Others == <<hunt_vars, filter_call, extract_call, endpoint, cache, resolve_call, search_call,
            chat, guided>>

\* No handler is in progress in the one process there is.
ProcessFree ==
  bank.workers > 1 \/ \A r \in HuntRequests : bank.req[r].pc \in {"idle", "done"}

(* An operation that is one handler: b is the row after it, deducts tells  *)
(* that it called deduct_balance and ok what that call returned.          *)
BankOp(op, deducts, ok, b) ==
  /\ bank.pc = "open"
  /\ bank.ops < MaxBankOps
  /\ ProcessFree
  /\ bank' = [b EXCEPT !.ops = bank.ops + 1,
                       !.adjusted = bank.adjusted \/ op \in {"add", "set", "add_tokens"},
                       !.last = [op |-> op, deducts |-> deducts, ok |-> ok,
                                 before |-> get_or_create(bank).wallet]]
  /\ UNCHANGED Others

\* POST /api/login: get_or_create.
Login == BankOp("login", FALSE, TRUE, get_or_create(bank))

\* A chat message answered by the model: check_balance, then deduct_balance.
ChatMessage ==
  LET b == get_or_create(bank)
  IN BankOp("chat", check_balance(b, CHAT_COST), TRUE,
            IF check_balance(b, CHAT_COST)
            THEN [b EXCEPT !.wallet = deduct_balance(b, CHAT_COST)] ELSE b)

\* POST /api/admin/balance, action "add".
AdminAdd ==
  \E amount \in Amounts :
    LET b == get_or_create(bank)
    IN BankOp("add", FALSE, TRUE, [b EXCEPT !.wallet = add_balance(b, amount)])

\* POST /api/admin/balance, action "set".
AdminSet ==
  \E amount \in Amounts :
    LET b == get_or_create(bank)
    IN BankOp("set", b.db_type = "local" /\ amount < b.wallet,
              b.is_admin \/ set_balance(b, amount) = amount,
              [b EXCEPT !.wallet = set_balance(b, amount)])

\* The pending add_tokens action of the chat: int(parts[1]), add_balance.
ChatAddTokens ==
  \E amount \in Amounts :
    LET b == get_or_create(bank)
    IN BankOp("add_tokens", FALSE, TRUE, [b EXCEPT !.wallet = add_balance(b, amount)])

\* hunt, lines 318-324: check_balance, 402 when the user cannot afford it.
HuntCheck ==
  \E r \in HuntRequests :
    /\ bank.pc = "open"
    /\ bank.req[r].pc = "idle"
    /\ ProcessFree
    /\ bank' = [get_or_create(bank) EXCEPT
                  !.req[r].pc = IF check_balance(get_or_create(bank), HUNT_COST)
                                THEN "checked" ELSE "done"]
    /\ UNCHANGED Others

\* hunt, lines 327-333: hunt_leads returns with leads, or without.
HuntReturn ==
  \E r \in HuntRequests : \E found \in BOOLEAN :
    /\ bank.pc = "open"
    /\ bank.req[r].pc = "checked"
    /\ bank' = [bank EXCEPT !.req[r] = [pc |-> "hunted", leads |-> found]]
    /\ UNCHANGED Others

(* hunt, lines 335-349: add_leads_batch and deduct_balance when there are  *)
(* leads; what deduct_balance returns is not looked at, the leads are      *)
(* returned.                                                               *)
HuntStore ==
  \E r \in HuntRequests :
    /\ bank.pc = "open"
    /\ bank.req[r].pc = "hunted"
    /\ bank' =
         IF bank.req[r].leads
         THEN [bank EXCEPT !.req[r].pc = "done",
                           !.wallet = deduct_balance(bank, HUNT_COST),
                           !.delivered = @ + 1,
                           !.deductions = IF bank.is_admin \/ bank.wallet >= HUNT_COST
                                          THEN @ + 1 ELSE @,
                           !.last = [op |-> "hunt", deducts |-> TRUE,
                                     ok |-> bank.is_admin \/ bank.wallet >= HUNT_COST,
                                     before |-> bank.wallet]]
         ELSE [bank EXCEPT !.req[r].pc = "done"]
    /\ UNCHANGED Others

BankNext ==
  \/ Login
  \/ ChatMessage
  \/ AdminAdd
  \/ AdminSet
  \/ ChatAddTokens
  \/ HuntCheck
  \/ HuntReturn
  \/ HuntStore

BankSpec == BankInit /\ [][BankNext]_vars

\* ------------------------------------------------- the unified chat

\* A chat client sends at most MaxMessages requests.
MaxMessages == 4

\* app/core/security.py: a bcrypt hash, and its verification.
hash_password(password) == <<"$2b$">> \o password
verify_password(password, hashed) == hashed = hash_password(password)

\* A row of the users table; an empty password is no password.
User(w, adm, pw) == [wallet |-> w, is_admin |-> adm, password |-> pw]
Put(users, name, u) == [n \in DOMAIN users \cup {name} |-> IF n = name THEN u ELSE users[n]]
Drop(users, name) == [n \in DOMAIN users \ {name} |-> users[n]]

\* `user_id.lower() == "admin"`
AdminName == S("admin")
NamedAdmin(name) == name = AdminName \/ ToLower(name) = AdminName

\* UserService.is_admin: the name admin, or the flag of the row.
UserService_is_admin(users, name) ==
  NamedAdmin(name) \/ (name \in DOMAIN users /\ users[name].is_admin)

\* UserService.get_or_create: the table afterwards.  The local store also
\* raises the flag of an existing row called admin.
UserService_get_or_create(db_type, users, name) ==
  IF name \notin DOMAIN users
  THEN Put(users, name, User(DEFAULT_BALANCE, NamedAdmin(name), <<>>))
  ELSE IF db_type = "local" /\ NamedAdmin(name)
       THEN [users EXCEPT ![name].is_admin = TRUE]
       ELSE users

\* The user get_or_create returns.
UserOf(db_type, users, name) ==
  LET u == UserService_get_or_create(db_type, users, name)[name]
  IN  [u EXCEPT !.is_admin = @ \/ NamedAdmin(name)]

\* UserService.check_balance and deduct_balance: the answer, and the table.
UserService_check_balance(db_type, users, name, cost) ==
  check_balance(UserOf(db_type, users, name), cost)
UserService_deduct_balance(db_type, users, name, cost) ==
  LET created == UserService_get_or_create(db_type, users, name)
  IN  [created EXCEPT ![name].wallet = deduct_balance(UserOf(db_type, users, name), cost)]

\* UserService.add_balance: the table afterwards; it answers True.
UserService_add_balance(db_type, users, name, amount) ==
  LET created == UserService_get_or_create(db_type, users, name)
  IN  [created EXCEPT ![name].wallet = @ + amount]

\* UserService.set_admin(name, True): the table afterwards; it answers True.
UserService_set_admin(db_type, users, name) ==
  [UserService_get_or_create(db_type, users, name) EXCEPT ![name].is_admin = TRUE]

\* UserService.set_password: the table afterwards; True iff the row exists.
UserService_set_password(users, name, new_password) ==
  IF name \in DOMAIN users
  THEN [users EXCEPT ![name].password = hash_password(new_password)]
  ELSE users

\* UserService.change_password: [ok, users].
UserService_change_password(users, name, old_password, new_password) ==
  IF name \notin DOMAIN users THEN [ok |-> FALSE, users |-> users]
  ELSE IF users[name].password # <<>> /\ ~verify_password(old_password, users[name].password)
       THEN [ok |-> FALSE, users |-> users]
       ELSE [ok |-> TRUE, users |-> UserService_set_password(users, name, new_password)]

\* UserService.delete_user: the pair it returns, (deleted, message), and the
\* table.  db_error is an exception of the PostgreSQL connection.
UserService_delete_user(db_type, users, name, db_error) ==
  IF NamedAdmin(name)
  THEN [deleted |-> FALSE, message |-> "protected", users |-> users]
  ELSE IF db_type = "replit_pg" /\ db_error
       THEN [deleted |-> FALSE, message |-> "error", users |-> users]
       ELSE IF name \in DOMAIN users
            THEN [deleted |-> TRUE, message |-> "deleted", users |-> Drop(users, name)]
            ELSE [deleted |-> FALSE, message |-> "missing", users |-> users]

(* ADMIN_ACTIONS and USER_ACTIONS in their order, with the patterns written *)
(* in Latin letters; the messages below contain none of the Arabic ones.   *)
ADMIN_ACTIONS ==
  << [action |-> "add_tokens", patterns |-> <<S("add tokens")>>],
     [action |-> "delete_user", patterns |-> <<S("delete user")>>],
     [action |-> "list_users", patterns |-> <<S("list users")>>],
     [action |-> "set_password", patterns |-> <<S("set password")>>],
     [action |-> "view_stats", patterns |-> <<S("stats")>>],
     [action |-> "make_admin", patterns |-> <<S("make admin")>> ] >>
USER_ACTIONS ==
  << [action |-> "hunt_leads", patterns |-> <<S("leads")>>],
     [action |-> "add_lead", patterns |-> <<S("add lead")>>],
     [action |-> "list_leads", patterns |-> <<S("my leads"), S("list leads")>>],
     [action |-> "share_lead", patterns |-> <<S("share lead")>>],
     [action |-> "view_stats", patterns |-> <<S("my stats")>>],
     [action |-> "change_password", patterns |-> <<S("change password")>>],
     [action |-> "export_leads", patterns |-> <<S("export leads")>> ] >>

\* The first action of a table with a pattern inside the message, or "".
RECURSIVE FirstAction(_, _, _)
FirstAction(actions, k, message_lower) ==
  IF k > Len(actions) THEN ""
  ELSE IF AnyIn(message_lower, actions[k].patterns) THEN actions[k].action
       ELSE FirstAction(actions, k + 1, message_lower)

\* detect_action; "" is None.
detect_action(message, is_admin) ==
  LET message_lower == Strip(ToLower(message))
      admin_action == IF is_admin THEN FirstAction(ADMIN_ACTIONS, 1, message_lower) ELSE ""
  IN  IF admin_action # "" THEN admin_action ELSE FirstAction(USER_ACTIONS, 1, message_lower)

\* The words that cancel a pending action.
CancelWords == { Ar("AlgA'"), S("cancel"), Ar("lA"), Ar("xrwj") }

\* simple_keywords of _extract_business_from_message; the patterns before
\* them need a second word, or a profession, which no message below has.
BusinessWords == << Ar("mTEm"), Ar("mHl"), Ar("mktb") >>
RECURSIVE FirstWord(_, _, _)
FirstWord(words, k, message) ==
  IF k > Len(words) THEN None
  ELSE IF Contains(message, words[k]) THEN words[k] ELSE FirstWord(words, k + 1, message)
extract_business_from_message(message) == FirstWord(BusinessWords, 1, message)

\* str.split() on white space.
RECURSIVE SplitFrom(_, _, _)
SplitFrom(t, i, word) ==
  IF i > Len(t) THEN (IF word = <<>> THEN <<>> ELSE <<word>>)
  ELSE IF t[i] \in Space
       THEN (IF word = <<>> THEN <<>> ELSE <<word>>) \o SplitFrom(t, i + 1, <<>>)
       ELSE SplitFrom(t, i + 1, Append(word, t[i]))
Split(t) == SplitFrom(t, 1, <<>>)

\* int() of decimal digits with an optional sign; NaN is a ValueError.
DigitValue(d) == CHOOSE v \in 0..9 : d \in { S("0123456789")[v + 1], "ar#" \o S("0123456789")[v + 1] }
RECURSIVE Digits(_, _)
Digits(t, acc) == IF t = <<>> THEN acc ELSE Digits(Tail(t), 10 * acc + DigitValue(Head(t)))
IsDigits(t) == t # <<>> /\ \A i \in 1..Len(t) : t[i] \in UniDigits
ParseInt(t) ==
  IF IsDigits(t) THEN Digits(t, 0)
  ELSE IF t # <<>> /\ Head(t) = "-" /\ IsDigits(Tail(t)) THEN 0 - Digits(Tail(t), 0)
  ELSE IF t # <<>> /\ Head(t) = "+" /\ IsDigits(Tail(t)) THEN Digits(Tail(t), 0)
  ELSE NaN

\* `int(re.sub(r'\D', '', message))`, clamped; 20 when that raises.
CountOf(message) ==
  LET digits == ReSubEmpty(<<NotCls(UniDigits, 1, 1)>>, message)
  IN  IF digits = <<>> THEN DefaultCount
      ELSE IF Digits(digits, 0) < ClampMin THEN ClampMin
      ELSE IF Digits(digits, 0) > ClampMax THEN ClampMax ELSE Digits(digits, 0)

\* The messages a client sends.
MsgNew == Ar("jdyd")
Messages ==
  { S("add tokens"), S("delete user"), S("set password"), S("make admin"),
    S("leads"), S("leads ") \o Ar("mTEm"), S("change password"), S("cancel"), MsgNew,
    S("ahmed"), S("admin"), S("ahmed 50"), S("pw1"), S("cairo"), S("10") }

\* detect_action of every message, for an admin and for another user.
Detected ==
  [m \in Messages |-> [admin |-> detect_action(m, TRUE), user |-> detect_action(m, FALSE)]]
Detect(message, is_admin) ==
  IF is_admin THEN Detected[message].admin ELSE Detected[message].user

\* What the handlers compute from the text of a message alone.
Parsed ==
  [m \in Messages |->
     [cancel |-> ToLower(m) \in CancelWords,
      parts |-> Split(m),
      amount |-> IF Len(Split(m)) >= 2 THEN ParseInt(Split(m)[2]) ELSE NaN,
      count |-> CountOf(m),
      business |-> extract_business_from_message(m),
      new |-> ToLower(m) = MsgNew]]

\* A session of get_session; "" is no pending action, NoData is {}.
NoData == [step |-> "", business |-> <<>>, location |-> <<>>, count |-> 0, old_password |-> <<>>]
NewSession == [pending_action |-> "", pending_data |-> NoData]
Reset(session) == NewSession
Pending(session, action, data) == [pending_action |-> action, pending_data |-> data]

(* What process_message leaves: the users table, the session, the kind of  *)
(* reply, and the service call it made: its name, its target and what the  *)
(* service answered.                                                       *)
Reply(users, session, reply, act, target, ok) ==
  [users |-> users, session |-> session, reply |-> reply, act |-> act, target |-> target, ok |-> ok]

\* What the search and the database do during one message: the search is
\* asked at the count step of a hunt, the database deletes for delete_user.
Environment(session) ==
  IF session.pending_action = "hunt_leads" /\ session.pending_data.step = "count"
  THEN [hunt : {"raised", "leads", "none"}, db_error : {FALSE}]
  ELSE IF session.pending_action = "delete_user"
       THEN [hunt : {"none"}, db_error : BOOLEAN]
       ELSE [hunt : {"none"}, db_error : {FALSE}]

\* The "count" step of a pending hunt_leads.
HuntStep(db_type, users, session, user_id, message, o) ==
  LET data == [session.pending_data EXCEPT !.count = Parsed[message].count]
      created == UserService_get_or_create(db_type, users, user_id)
  IN  IF ~UserService_check_balance(db_type, users, user_id, HUNT_COST)
      THEN Reply(created, Reset(session), "error", "check_balance", user_id, FALSE)
      ELSE IF o.hunt = "raised"
      THEN Reply(created, Pending(session, "hunt_leads", data), "raised", "hunt_leads", user_id, FALSE)
      ELSE IF db_type = "local"
      THEN Reply(created, Pending(session, "hunt_leads", data), "raised", "filter_duplicates", user_id, FALSE)
      ELSE IF o.hunt = "leads"
      THEN Reply(UserService_deduct_balance(db_type, created, user_id, HUNT_COST),
                 Reset(session), "leads", "hunt_leads", user_id, TRUE)
      ELSE Reply(created, Reset(session), "none", "hunt_leads", user_id, TRUE)

\* _handle_pending_action
handle_pending_action(db_type, users, session, user_id, message, o) ==
  LET action == session.pending_action
      data == session.pending_data
      parts == Parsed[message].parts
      step == data.step
  IN  IF Parsed[message].cancel
      THEN Reply(users, Reset(session), "cancelled", "", <<>>, TRUE)
      ELSE IF action = "add_tokens"
      THEN IF Len(parts) >= 2 /\ Parsed[message].amount # NaN
           THEN Reply(UserService_add_balance(db_type, users, parts[1], Parsed[message].amount),
                      Pending(session, "", data), "success", "add_tokens", parts[1], TRUE)
           ELSE Reply(users, session, "format", "", <<>>, TRUE)
      ELSE IF action = "delete_user"
      THEN LET r == UserService_delete_user(db_type, users, message, o.db_error)
               success == <<r.deleted, r.message>>
           IN  Reply(r.users, Pending(session, "", data),
                     IF success # <<>> THEN "success" ELSE "error", "delete_user", message, r.deleted)
      ELSE IF action = "set_password"
      THEN IF Len(parts) >= 2
           THEN Reply(UserService_set_password(users, parts[1], parts[2]), Pending(session, "", data),
                      IF parts[1] \in DOMAIN users THEN "success" ELSE "error",
                      "set_password", parts[1], parts[1] \in DOMAIN users)
           ELSE Reply(users, session, "format", "", <<>>, TRUE)
      ELSE IF action = "make_admin"
      THEN Reply(UserService_set_admin(db_type, users, message), Pending(session, "", data),
                 "success", "make_admin", message, TRUE)
      ELSE IF action = "hunt_leads" /\ step \in {"", "business"}
      THEN Reply(users, Pending(session, action, [data EXCEPT !.business = message, !.step = "location"]),
                 "needs_input", "", <<>>, TRUE)
      ELSE IF action = "hunt_leads" /\ step = "location"
      THEN Reply(users, Pending(session, action, [data EXCEPT !.location = message, !.step = "count"]),
                 "needs_input", "", <<>>, TRUE)
      ELSE IF action = "hunt_leads" /\ step = "count"
      THEN HuntStep(db_type, users, session, user_id, message, o)
      ELSE IF action = "change_password" /\ step \in {"", "old"}
      THEN Reply(users,
                 Pending(session, action,
                         [data EXCEPT !.old_password = IF ~Parsed[message].new THEN message ELSE <<>>,
                                      !.step = "new"]),
                 "needs_input", "", <<>>, TRUE)
      ELSE IF action = "change_password" /\ step = "new"
      THEN IF data.old_password # <<>>
           THEN LET r == UserService_change_password(users, user_id, data.old_password, message)
                IN  Reply(r.users, Reset(session), IF r.ok THEN "success" ELSE "error",
                          "change_password", user_id, r.ok)
           ELSE Reply(UserService_set_password(users, user_id, message), Reset(session),
                      IF user_id \in DOMAIN users THEN "success" ELSE "error",
                      "set_own_password", user_id, user_id \in DOMAIN users)
      ELSE Reply(users, Reset(session), "error", "", <<>>, TRUE)

(* process_message.  add_lead, list_leads, share_lead, view_stats,          *)
(* export_leads and list_users are named by no message sent here.           *)
process_message(db_type, users, session, user_id, message, is_admin, o) ==
  LET action == Detect(message, is_admin)
      pending == session.pending_action
      fresh == IF pending # "" THEN Reset(session) ELSE session
      business == Parsed[message].business
  IN  IF pending # "" /\ ~(action # "" /\ action # pending)
      THEN handle_pending_action(db_type, users, session, user_id, message, o)
      ELSE IF action = "add_tokens" /\ is_admin
      THEN Reply(users, Pending(fresh, "add_tokens", NoData), "needs_input", "", <<>>, TRUE)
      ELSE IF action \in {"delete_user", "set_password", "make_admin"} /\ is_admin
      THEN Reply(users, Pending(fresh, action, fresh.pending_data), "needs_input", "", <<>>, TRUE)
      ELSE IF action = "hunt_leads"
      THEN Reply(users,
                 Pending(fresh, "hunt_leads",
                         IF business # None
                         THEN [NoData EXCEPT !.step = "location", !.business = business]
                         ELSE [NoData EXCEPT !.step = "business"]),
                 "needs_input", "", <<>>, TRUE)
      ELSE IF action = "change_password"
      THEN Reply(users, Pending(fresh, "change_password", [NoData EXCEPT !.step = "old"]),
                 "needs_input", "", <<>>, TRUE)
      ELSE IF action # ""
      THEN Reply(users, fresh, "text", "", <<>>, TRUE)
      ELSE IF ~UserService_check_balance(db_type, users, user_id, CHAT_COST)
      THEN Reply(UserService_get_or_create(db_type, users, user_id), fresh, "error",
                 "check_balance", user_id, FALSE)
      ELSE Reply(UserService_deduct_balance(db_type, users, user_id, CHAT_COST), fresh, "text",
                 "generate", user_id, TRUE)

\* The user that chats, the users that call the admin endpoints, and the
\* rows of the users table at the start: bob may have been made an admin,
\* and may have a password.
Senders == { S("bob") }
Callers == { S("admin"), S("bob") }
InitialUsers(bob) ==
  [n \in { S("admin"), S("bob"), S("ahmed") } |->
     IF n = S("admin") THEN User(DEFAULT_BALANCE, TRUE, <<>>)
     ELSE IF n = S("bob") THEN bob ELSE User(DEFAULT_BALANCE, FALSE, <<>>)]
NoMessage ==
  [sender |-> <<>>, is_admin |-> FALSE, pending |-> "", step |-> "", handled |-> FALSE,
   act |-> "", target |-> <<>>, ok |-> TRUE, reply |-> "",
   password |-> <<>>, old_password |-> <<>>, replaced |-> FALSE]

ChatInit ==
  /\ HuntIdle
  /\ filter_call = NoCall
  /\ extract_call = NoCall
  /\ endpoint = NoCall
  /\ cache = NoCall
  /\ resolve_call = NoCall
  /\ search_call = NoCall
  /\ bank = NoCall
  /\ guided = NoCall
  /\ \E db \in DbTypes, w \in {0, DEFAULT_BALANCE}, adm \in BOOLEAN,
        pw \in { <<>>, hash_password(S("pw1")) } :
       chat = [pc |-> "open", db_type |-> db, users |-> InitialUsers(User(w, adm, pw)),
               sessions |-> [s \in Senders |-> NewSession], msgs |-> 0, last |-> NoMessage]

StoredPassword(users, name) == IF name \in DOMAIN users THEN users[name].password ELSE <<>>

\* main.py: POST /api/chat/{user_id}; an exception is answered with 503.
PostChat ==
  /\ chat.pc = "open"
  /\ chat.msgs < MaxMessages
  /\ \E user_id \in Senders, message \in Messages :
     \E o \in Environment(chat.sessions[user_id]) :
     \E admin \in { UserService_is_admin(chat.users, user_id) }, before \in { chat.sessions[user_id] } :
     \E r \in { process_message(chat.db_type, chat.users, before, user_id, message, admin, o) } :
     \E after \in { IF r.reply = "raised" THEN r.users
                     ELSE UserService_get_or_create(chat.db_type, r.users, user_id) } :
           chat' = [chat EXCEPT
                      !.users = after,
                      !.sessions[user_id] = r.session,
                      !.msgs = @ + 1,
                      !.last = [sender |-> user_id, is_admin |-> admin,
                                pending |-> before.pending_action,
                                step |-> before.pending_data.step,
                                handled |-> r.reply # "cancelled" /\ before.pending_action # ""
                                            /\ Detect(message, admin) \in {"", before.pending_action},
                                act |-> r.act, target |-> r.target, ok |-> r.ok, reply |-> r.reply,
                                password |-> StoredPassword(chat.users, user_id),
                                old_password |-> before.pending_data.old_password,
                                replaced |-> StoredPassword(after, user_id)
                                             # StoredPassword(chat.users, user_id)]]
  /\ UNCHANGED <<hunt_vars, filter_call, extract_call, endpoint, cache, resolve_call, search_call,
                 bank, guided>>

\* main.py: DELETE /api/admin/users/{user_id}?admin_id=...; 403 unless an admin asks.
DeleteUser ==
  /\ chat.pc = "open"
  /\ chat.msgs < MaxMessages
  /\ \E admin_id \in Callers, user_id \in { S("bob"), S("ahmed") }, db_error \in BOOLEAN :
       /\ UserService_is_admin(chat.users, admin_id)
       /\ LET r == UserService_delete_user(chat.db_type, chat.users, user_id, db_error)
          IN  chat' = [chat EXCEPT !.users = r.users, !.msgs = @ + 1,
                         !.last = [NoMessage EXCEPT !.sender = admin_id, !.is_admin = TRUE,
                                                    !.reply = IF r.deleted THEN "200" ELSE "400"]]
  /\ UNCHANGED <<hunt_vars, filter_call, extract_call, endpoint, cache, resolve_call, search_call,
                 bank, guided>>

ChatNext == PostChat \/ DeleteUser
ChatSpec == ChatInit /\ [][ChatNext]_vars

\* ------------------------------------------------- the guided hunt session

\* A client makes at most MaxResponses calls.
MaxResponses == 8

\* An options dict {response: value}; NoOptions is None.
NoOptions == <<>>
Option(k, v) == [k |-> S(k), v |-> v]

\* GuidedHuntSession.STEPS: the key and the options of each step.
STEPS ==
  << [key |-> "target_type",
      options |-> << Option("1", Ar("m$tryn EqArAt")), Option("2", Ar("bAyEyn EqArAt")),
                     Option("3", Ar("msvmryn")), Option("4", Ar("$rkAt EqAryp")) >>],
     [key |-> "property_type",
      options |-> << Option("1", Ar("$qq")), Option("2", Ar("fylAt")), Option("3", Ar(">rADy")),
                     Option("4", Ar("mHlAt")), Option("5", Ar("mkAtb")), Option("6", Ar("EqArAt")) >>],
     [key |-> "location", options |-> NoOptions],
     [key |-> "budget",
      options |-> << Option("1", Ar("AqtSAdy")), Option("2", Ar("mtwsT")), Option("3", Ar("fAxr")),
                     Option("4", Ar("swbr lwks")), Option("5", <<>>) >>],
     [key |-> "count", options |-> NoOptions],
     [key |-> "confirm", options |-> << Option("1", Ar("Abd>")), Option("2", Ar("tEdyl")) >>] >>

\* options.get(response, response)
RECURSIVE OptionValue(_, _, _)
OptionValue(options, k, response) ==
  IF k > Len(options) THEN response
  ELSE IF options[k].k = response THEN options[k].v ELSE OptionValue(options, k + 1, response)

\* The responses a client sends, and the count read from each.
UserResponses == { S("1"), S("5"), S(" cairo "), S("70") }
ResponseCount == [r \in UserResponses |-> CountOf(Strip(r))]

\* session["data"]; None is a key that is not set, count 0 is no count.
NoAnswers ==
  [target_type |-> None, property_type |-> None, location |-> None, budget |-> None,
   count |-> 0, confirm |-> None]
NoSession == [active |-> FALSE, step |-> 0, data |-> NoAnswers]

\* start_session
start_session == [active |-> TRUE, step |-> 0, data |-> NoAnswers]

(* process_response on an active session: STEPS[step] raises IndexError    *)
(* past the last step; otherwise the answer is stored and the step grows.  *)
process_response(session, response) ==
  IF session.step + 1 > Len(STEPS)
  THEN [raised |-> TRUE, session |-> session, ready_to_hunt |-> FALSE]
  ELSE LET step_config == STEPS[session.step + 1]
           value == IF step_config.options # NoOptions
                    THEN OptionValue(step_config.options, 1, Strip(response))
                    ELSE Strip(response)
           data == IF step_config.key = "target_type" THEN [session.data EXCEPT !.target_type = value]
                   ELSE IF step_config.key = "property_type" THEN [session.data EXCEPT !.property_type = value]
                   ELSE IF step_config.key = "location" THEN [session.data EXCEPT !.location = value]
                   ELSE IF step_config.key = "budget" THEN [session.data EXCEPT !.budget = value]
                   ELSE IF step_config.key = "count" THEN [session.data EXCEPT !.count = ResponseCount[response]]
                   ELSE [session.data EXCEPT !.confirm = value]
       IN  [raised |-> FALSE,
            session |-> [session EXCEPT !.data = data, !.step = @ + 1],
            ready_to_hunt |-> session.step + 1 >= Len(STEPS) - 1]

\* The words confirm_hunt takes as yes and as no.
YesWords == { S("1"), Ar("Abd>"), Ar("nEm"), Ar("Ah"), Ar(">ywh"), Ar("tmAm"), Ar("ylA") }
NoWords == { S("2"), Ar("tEdyl"), Ar("lA") }

GuidedInit ==
  /\ HuntIdle
  /\ filter_call = NoCall
  /\ extract_call = NoCall
  /\ endpoint = NoCall
  /\ cache = NoCall
  /\ resolve_call = NoCall
  /\ search_call = NoCall
  /\ bank = NoCall
  /\ chat = NoCall
  /\ guided = [pc |-> "open", session |-> NoSession, calls |-> 0,
               last |-> [op |-> "none", raised |-> FALSE, ready_to_hunt |-> FALSE]]

GuidedCall(op, session, raised, ready) ==
  /\ guided.pc = "open"
  /\ guided.calls < MaxResponses
  /\ guided' = [guided EXCEPT !.session = session, !.calls = @ + 1,
                              !.last = [op |-> op, raised |-> raised, ready_to_hunt |-> ready]]
  /\ UNCHANGED <<hunt_vars, filter_call, extract_call, endpoint, cache, resolve_call, search_call,
                 bank, chat>>

\* GuidedHuntSession.start_session
StartSession == GuidedCall("start_session", start_session, FALSE, FALSE)

\* GuidedHuntSession.process_response; without an active session it starts one.
ProcessResponse ==
  \E response \in UserResponses :
    IF ~guided.session.active
    THEN GuidedCall("process_response", start_session, FALSE, FALSE)
    ELSE \E r \in { process_response(guided.session, response) } :
           GuidedCall("process_response", r.session, r.raised, r.ready_to_hunt)

\* GuidedHuntSession.confirm_hunt: None without a session or without data.
ConfirmHunt ==
  \E confirm \in UserResponses :
    IF ~guided.session.active \/ guided.session.data = NoAnswers
    THEN GuidedCall("confirm_hunt", guided.session, FALSE, FALSE)
    ELSE IF Strip(confirm) \in YesWords
    THEN GuidedCall("confirm_hunt", [guided.session EXCEPT !.active = FALSE], FALSE, FALSE)
    ELSE IF Strip(confirm) \in NoWords
    THEN GuidedCall("confirm_hunt", start_session, FALSE, FALSE)
    ELSE GuidedCall("confirm_hunt", guided.session, FALSE, FALSE)

\* GuidedHuntSession.end_session
EndSession == GuidedCall("end_session", [guided.session EXCEPT !.active = FALSE], FALSE, FALSE)

GuidedNext == StartSession \/ ProcessResponse \/ ConfirmHunt \/ EndSession
GuidedSpec == GuidedInit /\ [][GuidedNext]_vars

\* ---------------------------------------------------------- properties

\* The number of queries of the four tiers of the call.
TierQueryCount ==
  Len(TierQueries("golden")) + Len(TierQueries("phone_heavy"))
    + Len(TierQueries("fallback")) + Len(TierQueries("generic"))

\* The (tier, index) pairs of all the queries of the call, in the fixed order.
FullOrder ==
  <<[tier |-> "golden", n |-> 1]>>
  \o AsSeq([k \in 1..Len(TierQueries("phone_heavy")) |-> [tier |-> "phone_heavy", n |-> k]])
  \o AsSeq([k \in 1..Len(TierQueries("fallback")) |-> [tier |-> "fallback", n |-> k]])
  \o AsSeq([k \in 1..Len(TierQueries("generic")) |-> [tier |-> "generic", n |-> k]])

\* The (tier, index) pairs of the queries issued so far, in the order issued.
IssuedOrder ==
  AsSeq([k \in 1..Len(issued) |-> [tier |-> issued[k].tier, n |-> issued[k].n]])

(* C1: the list hunt_leads returns is never longer than the requested      *)
(* count, for every request.                                               *)
QuotaBound == pc = "done" => Len(result) <= max_results

(* C2: no two leads of the returned list have the same normalized phone.   *)
PhoneUniqueness ==
  pc = "done" =>
    \A i, j \in 1..Len(result) :
      (i # j /\ result[i].phone # <<>> /\ result[j].phone # <<>>)
        => normalize_phone(result[i].phone) # normalize_phone(result[j].phone)

(* C3: a query after the golden one is issued only when fewer leads than   *)
(* the requested count have been accepted; so once the count is reached,   *)
(* the golden wave included, no further query is issued.                   *)
QuotaCheckedBeforeQuery ==
  [][(Len(issued') > Len(issued) /\ pc # "golden") => Len(all_leads) < max_results]_vars

\* C3's case: the golden wave alone met a positive count and the call returned.
GoldenMetQuota ==
  /\ pc = "done"
  /\ max_results >= 1
  /\ Len(all_leads) >= max_results
  /\ Len(issued) = 1
  /\ net_calls <= 2

(* C4: the returned list is the first min(count, n) of the n accepted      *)
(* leads, in the order they were accepted.                                 *)
ResultIsPrefix ==
  pc = "done" =>
    result = SubSeq(all_leads, 1, IF max_results < Len(all_leads) THEN max_results
                                  ELSE Len(all_leads))

(* C5 as stated: a call never makes more network requests than it has      *)
(* tier queries, 17.                                                       *)
RequestsWithinQueryCount == net_calls <= TierQueryCount

(* C5, amended: a call issues at most 17 queries (1 + 6 + 5 + 5), and each *)
(* query makes at most two network requests, one to Serper and one to      *)
(* DuckDuckGo: at most 34 requests.                                        *)
QueryAndRequestBound ==
  /\ TierQueryCount = 17
  /\ Len(issued) <= TierQueryCount
  /\ net_calls <= 2 * Len(issued)

\* C5's case: all the queries were issued and every one of them fell back.
EveryQueryFellBack ==
  /\ pc = "done"
  /\ Len(issued) = TierQueryCount
  /\ net_calls = 2 * TierQueryCount

(* C6: no query string is sent twice to the same backend within one call.  *)
QueriesPairwiseDistinct ==
  \A i, j \in 1..Len(issued) :
    (i # j /\ issued[i].backend = issued[j].backend)
      => QueryText(issued[i]) # QueryText(issued[j])

(* C7: hunt_leads never raises, whatever the backends answer.              *)
NeverRaises == pc # "raised"

(* C8: when every search of a call returned no result, the call has issued *)
(* all its queries in the fixed order and returns the empty list.          *)
EmptyCascadeRunsAllQueries ==
  (pc = "done" /\ empty_only) => (IssuedOrder = FullOrder /\ result = <<>>)

(* C9: every call reaches its return.                                      *)
ReachesDone == <>(pc = "done")

(* C11: no two returned leads without a phone carry emails that are equal   *)
(* once lowercased.                                                        *)
EmailUniqueness ==
  pc = "done" =>
    \A i, j \in 1..Len(result) :
      (i # j /\ result[i].phone = <<>> /\ result[j].phone = <<>>
           /\ result[i].email # <<>> /\ result[j].email # <<>>)
        => ToLower(result[i].email) # ToLower(result[j].email)

(* C10: no accepted lead carries a phone the user already has stored.      *)
ExistingNeverAccepted ==
  \A i \in 1..Len(all_leads) : all_leads[i].phone \notin existing_phones

\* ------------------------------------ properties of filter_duplicates

\* The candidate at position i of the kept list, as it was passed.
KeptGiven(i) == filter_call.given[filter_call.kept[i]]

\* The phones the calls meet, and _normalize_phone of each.
FilterPhones == { l.phone : l \in CandidateLeads } \cup UNION StoredPhoneSets
Normalized == [p \in FilterPhones |-> normalize_phone(p)]

(* C12: a kept candidate with a phone has a normalized phone that is        *)
(* neither in existing_phones nor the normalized phone of a candidate kept  *)
(* before it, and no returned phone is in existing_phones.                  *)
KeptPhoneIsNew ==
  filter_call.pc # "idle" =>
    /\ \A i \in 1..Len(filter_call.kept) :
         KeptGiven(i).phone # <<>> =>
           /\ Normalized[KeptGiven(i).phone] \notin filter_call.existing_phones
           /\ \A j \in 1..(i - 1) :
                KeptGiven(j).phone # <<>> =>
                  Normalized[KeptGiven(j).phone] # Normalized[KeptGiven(i).phone]
    /\ \A i \in 1..Len(filter_call.unique_leads) :
         filter_call.unique_leads[i].phone \notin filter_call.existing_phones

\* (lead.get("email", "") or ""), lowercased.
LoweredEmail(lead) == ToLower(IF lead.email = None THEN <<>> ELSE lead.email)

(* C13: in smart_hunt_service's filter, a kept candidate without a phone    *)
(* has an email whose lowercased form is neither in existing_emails nor the *)
(* lowercased email of a phone-less candidate kept before it; a candidate   *)
(* with neither phone nor email is not kept; a candidate with a phone is    *)
(* dropped only when its phone is a duplicate.                              *)
EmailRule ==
  (filter_call.pc # "idle" /\ filter_call.impl = "smart_hunt_service") =>
    /\ \A i \in 1..Len(filter_call.kept) :
         KeptGiven(i).phone = <<>> =>
           /\ LoweredEmail(KeptGiven(i)) # <<>>
           /\ LoweredEmail(KeptGiven(i)) \notin filter_call.existing_emails
           /\ \A j \in 1..(i - 1) :
                KeptGiven(j).phone = <<>> =>
                  LoweredEmail(KeptGiven(j)) # LoweredEmail(KeptGiven(i))
    /\ \A n \in 1..(filter_call.k - 1) :
         (filter_call.given[n].phone # <<>>
            /\ \A i \in 1..Len(filter_call.kept) : filter_call.kept[i] # n) =>
           \/ Normalized[filter_call.given[n].phone] \in filter_call.existing_phones
           \/ \E i \in 1..Len(filter_call.kept) :
                /\ filter_call.kept[i] < n
                /\ KeptGiven(i).phone # <<>>
                /\ Normalized[KeptGiven(i).phone] = Normalized[filter_call.given[n].phone]

(* A finished smart_hunt_service call that kept a lead with a phone whose   *)
(* email was already stored, and dropped a phone-less lead whose email      *)
(* differs from a stored one by case only.                                  *)
EmailDuplicateDropped ==
  /\ filter_call.pc = "done"
  /\ filter_call.impl = "smart_hunt_service"
  /\ filter_call.existing_emails = {S("a@b.com")}
  /\ \E i \in 1..Len(filter_call.kept) :
       KeptGiven(i).phone # <<>> /\ KeptGiven(i).email = S("A@B.com")
  /\ \E n \in 1..Len(filter_call.given) :
       /\ filter_call.given[n] = Lead(<<>>, S("A@B.com"))
       /\ \A i \in 1..Len(filter_call.kept) : filter_call.kept[i] # n

\* The international prefixes of the supported countries.
CountryCodes == { S("20"), S("966"), S("971"), S("965") }

(* A phone without separators, without a leading + or 00, without the       *)
(* international prefix of a supported country and without the trunk 0.     *)
National(phone) ==
  LET p == ReSubEmpty(<<Cls(Space \cup {"-", ".", "(", ")"}, 1, 1)>>, phone)
      q == IF StartsWith(p, S("+")) THEN SubSeq(p, 2, Len(p))
           ELSE IF StartsWith(p, S("00")) THEN SubSeq(p, 3, Len(p))
           ELSE p
      r == IF \E c \in CountryCodes : StartsWith(q, c)
           THEN LET c == CHOOSE c \in CountryCodes : StartsWith(q, c)
                IN SubSeq(q, Len(c) + 1, Len(q))
           ELSE q
  IN IF StartsWith(r, S("0")) THEN SubSeq(r, 2, Len(r)) ELSE r

NationalOf == [p \in FilterPhones |-> National(p)]

(* C14: smart_hunt_service's filter keeps no candidate whose phone differs  *)
(* from a stored phone, or from the phone of a candidate kept before it,    *)
(* only by separators or by the international prefix of Egypt, Saudi        *)
(* Arabia, the UAE or Kuwait.                                               *)
PrefixVariantsDropped ==
  (filter_call.pc # "idle" /\ filter_call.impl = "smart_hunt_service") =>
    \A i \in 1..Len(filter_call.kept) :
      KeptGiven(i).phone # <<>> =>
        /\ \A e \in filter_call.existing_phones : NationalOf[e] # NationalOf[KeptGiven(i).phone]
        /\ \A j \in 1..(i - 1) :
             KeptGiven(j).phone # <<>> =>
               NationalOf[KeptGiven(j).phone] # NationalOf[KeptGiven(i).phone]

\* ------------------------------- properties of extract_leads_from_results

(* Lines 151-169 for the result the call c is at, f being what its text   *)
(* holds: a phone was found, or an email, or the flag is set, the text     *)
(* shows customer intent and the URL has given no lead in this call.       *)
ShouldInclude(c, f) ==
  \/ KeepPhones(f.cleaned, 1, [phones |-> <<>>, seen |-> c.seen_phones]).phones # <<>>
  \/ f.emails # <<>>
  \/ (c.include_no_phone /\ f.intent /\ c.results[c.k].link \notin c.seen_urls)

(* C15: an iteration of the loop emits a candidate for its result exactly  *)
(* when a phone was found, or an email was found, or include_no_phone is   *)
(* set, the text holds a customer-intent phrase and the URL has not been   *)
(* used by an earlier result of the call.                                  *)
EmissionRule ==
  [][(extract_call.pc = "loop" /\ extract_call.k <= Len(extract_call.results)) =>
       ((Len(extract_call'.leads) = Len(extract_call.leads) + 1)
          <=> ShouldInclude(extract_call,
                            Finds[extract_call.results[extract_call.k], extract_call.country]))]_vars

(* C16: the candidates a call has emitted carry pairwise different         *)
(* non-empty phones.                                                       *)
CallPhonesDistinct ==
  extract_call.pc # "idle" =>
    \A i, j \in 1..Len(extract_call.leads) :
      (i # j /\ extract_call.leads[i].phone # <<>>)
        => extract_call.leads[i].phone # extract_call.leads[j].phone

(* A call that returned fewer candidates than it had results with a phone: *)
(* the second result with the phone of the first gave none.                *)
RepeatedPhoneDropped ==
  /\ extract_call.pc = "returned"
  /\ extract_call.given = <<ItemAhmed, ItemAhmedAgain, ItemReem>>
  /\ Len(extract_call.leads) = 2

(* C17: every candidate has status "new", and lead_type "with_phone" when  *)
(* its phone is non-empty, "with_email" when its phone is empty and its    *)
(* email is not, "potential" when both are empty.                          *)
LeadTypeMatchesContact ==
  extract_call.pc # "idle" =>
    \A i \in 1..Len(extract_call.leads) :
      LET l == extract_call.leads[i]
      IN /\ l.status = "new"
         /\ l.lead_type \in {"with_phone", "with_email", "potential"}
         /\ (l.lead_type = "with_phone") <=> (l.phone # <<>>)
         /\ (l.lead_type = "with_email") <=> (l.phone = <<>> /\ l.email # <<>>)
         /\ (l.lead_type = "potential") <=> (l.phone = <<>> /\ l.email = <<>>)

\* A call that returned a candidate of each type, one with phone and email.
EveryLeadType ==
  /\ extract_call.pc = "returned"
  /\ \E i, j, n \in 1..Len(extract_call.leads) :
       /\ extract_call.leads[i].phone # <<>> /\ extract_call.leads[i].email # <<>>
       /\ extract_call.leads[j].lead_type = "with_email"
       /\ extract_call.leads[n].lead_type = "potential"

(* C18: a second call with the same arguments starts with empty leads,     *)
(* seen_phones and seen_urls, ends as the first call ended, with the same  *)
(* candidates, and the result list is as it was passed.                    *)
SecondCallSame ==
  extract_call.pc # "idle" =>
    /\ extract_call.results = extract_call.given
    /\ (extract_call.call = 2 /\ extract_call.k = 1 /\ extract_call.pc = "loop") =>
         (extract_call.leads = <<>> /\ extract_call.seen_phones = {}
            /\ extract_call.seen_urls = {})
    /\ (extract_call.call = 2 /\ extract_call.pc \in {"returned", "raised"}) =>
         Outcome(extract_call) = extract_call.first

(* A second call that returned, where the first had seen a phone twice and *)
(* a URL twice.                                                            *)
SecondCallReturned ==
  /\ extract_call.pc = "returned"
  /\ extract_call.call = 2
  /\ extract_call.given = <<ItemAhmed, ItemPost, ItemPost>>
  /\ extract_call.include_no_phone
  /\ Len(extract_call.leads) = 2

\* --------------------------------------------- properties of the queries

(* C19: when generate_golden_query raises, the golden search is issued     *)
(* with a query that names one site and excludes none, and hunt_leads does *)
(* not raise.                                                              *)
SynthesisFailureRecovered ==
  request.query = None =>
    /\ pc # "raised"
    /\ issued # <<>> =>
         /\ StartsWith(QueryText(issued[1]), S("site:"))
         /\ ~Contains(QueryText(issued[1]), S(" OR site:"))
         /\ ~Contains(QueryText(issued[1]), S("-site:"))

\* The sites the strategies and the tiers name in a site: operator.
KnownSites ==
  { S("facebook.com"), S("instagram.com"), S("twitter.com"), S("linkedin.com/in"),
    S("olx.com.eg"), S("opensooq.com"), S("dubizzle.com") }

(* The sites a query is restricted to: those it names with site:, every    *)
(* site when it names none.                                                *)
SiteScope(q) ==
  IF \E x \in KnownSites : Contains(q, S("site:") \o x)
  THEN { x \in KnownSites : Contains(q, S("site:") \o x) }
  ELSE KnownSites

(* How a query binds the locality: 2 as a quoted phrase, 1 as loose words, *)
(* 0 not at all.                                                           *)
LocalityBinding(q, city) ==
  IF Contains(q, Q(city)) THEN 2 ELSE IF Contains(q, city) THEN 1 ELSE 0

\* The constraints of every query of every hunt, computed once.
Constraints ==
  [r \in Requests |->
     [t \in {"golden", "phone_heavy", "fallback", "generic"} |->
        [n \in 1..Len(QueryTable[r][t]) |->
           [sites |-> SiteScope(QueryTable[r][t][n]),
            locality |-> LocalityBinding(QueryTable[r][t][n], r.city)]]]]

ConstraintOf(e) == Constraints[request][e.tier][e.n]

(* C20: where the issued queries pass from one tier to the next, the later *)
(* query allows every site the earlier one allowed and binds the locality  *)
(* no more tightly; the queries of the generic tier do not bind it at all. *)
TierRelaxation ==
  /\ \A i \in 1..(Len(issued) - 1) :
       issued[i].tier # issued[i + 1].tier =>
         /\ ConstraintOf(issued[i]).sites \subseteq ConstraintOf(issued[i + 1]).sites
         /\ ConstraintOf(issued[i + 1]).locality <= ConstraintOf(issued[i]).locality
  /\ \A i \in 1..Len(issued) :
       issued[i].tier = "generic" => ConstraintOf(issued[i]).locality = 0

\* ------------------------------------- properties of the hunt endpoints

(* C21: when hunt_leads is entered, on whichever path, the count it is     *)
(* given lies in 5..50.                                                    *)
CountClamped ==
  endpoint.pc = "hunting" => endpoint.count \in ClampMin..ClampMax

(* C22: after a request of POST /api/hunt or of the chat flow that passed  *)
(* the balance check, the wallet has changed only if the request returned  *)
(* leads, and then by HUNT_COST; when it returned none or failed, wallet   *)
(* and stored leads are as before and tokens_used is 0.                    *)
BillingFollowsResult ==
  (endpoint.pc = "waiting" /\ endpoint.hunts > 0
     /\ endpoint.path \in {"api_hunt", "chat_flow"} /\ endpoint.response.status # "402") =>
    /\ endpoint.wallet # endpoint.before.wallet =>
         /\ endpoint.response.leads # <<>>
         /\ endpoint.wallet = endpoint.before.wallet - HUNT_COST
    /\ endpoint.response.leads = <<>> =>
         /\ endpoint.wallet = endpoint.before.wallet
         /\ endpoint.table = endpoint.before.table
         /\ endpoint.response.tokens_used = 0

\* A chat hunt that returned leads, stored them and was billed.
BilledHunt ==
  /\ endpoint.pc = "waiting"
  /\ endpoint.path = "chat_flow"
  /\ endpoint.response.leads # <<>>
  /\ endpoint.response.tokens_used = HUNT_COST
  /\ endpoint.wallet = endpoint.before.wallet - HUNT_COST
  /\ Len(endpoint.table) > Len(endpoint.before.table)

\* The rows of a table that belong to a user.
RowsOf(table, user_id) == SelectSeq(table, LAMBDA r : r.user_id = user_id)

(* C23: the leads the chat flow keeps for user "a" are those the filter    *)
(* keeps when it knows only the phones and emails user "a" has stored.     *)
IndependentOfOtherUsers ==
  (endpoint.pc = "storing" /\ endpoint.path = "chat_flow") =>
    endpoint.leads =
      filter_duplicates("smart_hunt_service", endpoint.hunted,
                        get_existing_phones(RowsOf(endpoint.before.table, "a")),
                        get_existing_emails(endpoint.before.table, "a"))

(* C29: no two stored leads of one user carry the same non-empty phone.    *)
NoRepeatedStoredPhone ==
  endpoint.pc # "idle" =>
    \A i, j \in 1..Len(endpoint.table) :
      (i # j /\ endpoint.table[i].user_id = endpoint.table[j].user_id
           /\ endpoint.table[i].phone # <<>>)
        => endpoint.table[i].phone # endpoint.table[j].phone

\* The locality matches no configured city and none of the keywords.
MatchesNothing(city) ==
  /\ \A c \in KnownCountries : \A j \in 1..Len(COUNTRY_CONFIGS(c).cities) :
       /\ ~Contains(city, COUNTRY_CONFIGS(c).cities[j])
       /\ ~Contains(COUNTRY_CONFIGS(c).cities[j], city)
  /\ ~AnyIn(Strip(ToLower(city)),
            <<Ar("AlryAD"), Ar("jdp"), Ar("mkp"), Ar("AlsEwdyp"), Ar("dby"), Ar(">bwZby"),
              Ar("Al$Arqp"), Ar("Al<mArAt"), Ar("Alkwyt"), Ar("Hwly")>>)

(* C24: detect_country answers every locality string with a known country  *)
(* code, repeated calls on one locality give the same code, and a locality  *)
(* that matches no city and no keyword gets egypt.                          *)
CountryResolutionTotal ==
  resolve_call.pc # "idle" =>
    \A i \in 1..Len(resolve_call.codes) :
      /\ resolve_call.codes[i] \in KnownCountries
      /\ resolve_call.codes[i] = resolve_call.codes[1]
      /\ MatchesNothing(resolve_call.city) => resolve_call.codes[i] = "egypt"

\* C24's case: a locality that matches nothing was resolved three times.
UnmatchedLocalityResolved ==
  /\ resolve_call.pc # "idle"
  /\ Len(resolve_call.codes) = MaxResolves
  /\ MatchesNothing(resolve_call.city)
  /\ resolve_call.codes[MaxResolves] = "egypt"

(* C25: hunt_leads uses the explicit country unchanged exactly when it is   *)
(* given and known; otherwise its query synthesis, search region and phone  *)
(* extraction use the country resolved from the locality.                   *)
OverrideOnlyWhenKnown ==
  resolve_call.pc = "resolved" =>
    IF resolve_call.explicit \in KnownCountries
    THEN resolve_call.used = UsedFor(resolve_call.explicit)
    ELSE resolve_call.used = UsedFor(detect_country(resolve_call.city))

(* C26: a lookup returns a response only when the entry is younger than     *)
(* CACHE_TTL; an entry of that age or older is removed by the lookup, which *)
(* reports a miss.                                                          *)
CacheRespectsTtl ==
  (cache.pc = "ready" /\ cache.last.op = "get") =>
    /\ cache.last.returned # Miss => (cache.last.present /\ cache.last.age < CACHE_TTL)
    /\ (cache.last.present /\ cache.last.age >= CACHE_TTL) =>
         /\ cache.last.returned = Miss
         /\ IndexOf(cache.entries, cache.last.key) = 0

\* C26's case: the entry looked up was exactly CACHE_TTL old and is gone.
ExpiredEntryMissed ==
  /\ cache.pc = "ready"
  /\ cache.last.op = "get"
  /\ cache.last.present
  /\ cache.last.age = CACHE_TTL
  /\ cache.last.returned = Miss
  /\ IndexOf(cache.entries, cache.last.key) = 0

(* C27: the cache never holds more than 100 entries; an insertion that      *)
(* makes it 101 evicts exactly one entry, one no younger than any entry     *)
(* that stays, and the inserted entry stays.                                *)
CacheBounded ==
  cache.pc = "ready" =>
    /\ Len(cache.entries) <= CacheCap
    /\ cache.last.op = "put" =>
         /\ IndexOf(cache.entries, cache.last.key) # 0
         /\ IF cache.last.size_before = CacheCap /\ ~cache.last.present
            THEN /\ Len(cache.last.evicted) = 1
                 /\ Len(cache.entries) = CacheCap
                 /\ cache.last.evicted[1].key # cache.last.key
                 /\ \A i \in 1..Len(cache.entries) :
                      cache.last.evicted[1].timestamp <= cache.entries[i].timestamp
            ELSE cache.last.evicted = <<>>

\* C27's case: the 101st key was stored and the oldest entry left the cache.
OldestEvicted ==
  /\ cache.pc = "ready"
  /\ cache.last.op = "put"
  /\ cache.last.size_before = CacheCap
  /\ Len(cache.last.evicted) = 1
  /\ Len(cache.entries) = CacheCap
  /\ IndexOf(cache.entries, cache.last.key) # 0

\* The DuckDuckGo request failed: no answer, another status than 200, or an
\* item of the answer that the conversion cannot read.
DdgFailed(ddg, limit) ==
  \/ ddg.kind # "ok"
  \/ \E i \in 1..Len(PySlice(ddg.items, limit)) :
       ddg.items[i].Text = None

(* C28: Serper is asked first whenever its key is configured; DuckDuckGo is *)
(* asked exactly when the key is not configured or Serper raised or gave a  *)
(* status other than success, and after Serper; the call always returns,    *)
(* with an empty list when the backend that answered last failed.           *)
BackendPriority ==
  search_call.pc # "idle" =>
    /\ search_call.pc \in {"searching", "returned"}
    /\ search_call.asked \in {<<>>, <<"serper">>, <<"duckduckgo">>, <<"serper", "duckduckgo">>}
    /\ (search_call.has_key /\ search_call.asked # <<>>) => search_call.asked[1] = "serper"
    /\ (~search_call.has_key) => search_call.asked \in {<<>>, <<"duckduckgo">>}
    /\ search_call.pc = "returned" =>
         /\ (\E i \in 1..Len(search_call.asked) : search_call.asked[i] = "duckduckgo")
              <=> (~search_call.has_key \/ search_call.serper.kind \in {"error", "status", "badjson"})
         /\ (search_call.asked[Len(search_call.asked)] = "duckduckgo"
               /\ DdgFailed(search_call.ddg, search_call.limit)) => search_call.results = <<>>
         /\ search_call.results =
              search_with_country(search_call.has_key, search_call.serper,
                                  search_call.ddg, search_call.limit).results
         /\ Len(search_call.asked) =
              search_with_country(search_call.has_key, search_call.serper,
                                  search_call.ddg, search_call.limit).calls

\* C28's case: Serper was configured and failed, DuckDuckGo failed after it.
BothBackendsFailed ==
  /\ search_call.pc = "returned"
  /\ search_call.has_key
  /\ search_call.serper.kind = "error"
  /\ search_call.ddg.kind = "error"
  /\ search_call.asked = <<"serper", "duckduckgo">>
  /\ search_call.results = <<>>

(* C30: every lead hunt_leads has accepted, and every lead it returns, has  *)
(* a phone or an email; a candidate with neither is in no wave accepted.    *)
ReturnedLeadsHaveContact ==
  /\ \A i \in 1..Len(all_leads) :
       /\ all_leads[i].phone # <<>> \/ all_leads[i].email # <<>>
       /\ all_leads[i].lead_type # "potential"
  /\ pc = "done" =>
       \A i \in 1..Len(result) :
         /\ result[i].phone # <<>> \/ result[i].email # <<>>
         /\ result[i].lead_type # "potential"

\* C30's case: a search brought a contact-less candidate, the call returned leads.
PotentialNotReturned ==
  /\ pc = "done"
  /\ result # <<>>
  /\ potential_seen

(* C31: with the local store, filter_duplicates of the chat flow completes  *)
(* and hands on a sub-list of the hunted leads: the step that follows it is *)
(* the storing of leads that all were hunted.                               *)
LocalFilterCompletes ==
  [][(endpoint.pc = "filtering" /\ endpoint.db_type = "local") =>
       /\ endpoint'.pc = "storing"
       /\ \A i \in 1..Len(endpoint'.leads) :
            \E j \in 1..Len(endpoint.hunted) : endpoint'.leads[i].email = endpoint.hunted[j].email]_vars

(* C32: within one call of extract_leads_from_results, every phone the     *)
(* call has found and remembered is the phone of a candidate it has        *)
(* emitted, so a phone is withheld from a later candidate only when an     *)
(* earlier one carries it.                                                 *)
NoPhoneLost ==
  extract_call.pc \in {"loop", "returned"} =>
    \A p \in extract_call.seen_phones :
      \E i \in 1..Len(extract_call.leads) : extract_call.leads[i].phone = p

(* C33: for a user who is no admin and whose balance no admin changes, the  *)
(* hunts that deliver leads are never more than the initial balance pays    *)
(* for, however the requests interleave, and each of them is paid by a      *)
(* deduction that succeeded.                                                *)
HuntsPaid ==
  (bank.pc = "open" /\ ~bank.is_admin /\ ~bank.adjusted) =>
    /\ bank.delivered <= bank.initial \div HUNT_COST
    /\ bank.delivered = bank.deductions

\* The same, where one process serves every request of the user.
HuntsPaidInOneProcess ==
  (bank.pc = "open" /\ bank.workers = 1) =>
    ((~bank.is_admin /\ ~bank.adjusted) =>
       /\ bank.delivered <= bank.initial \div HUNT_COST
       /\ bank.delivered = bank.deductions)

(* C34: a wallet balance is never negative, and a deduction that the       *)
(* balance does not cover fails and leaves the balance as it was.          *)
WalletNeverNegative ==
  bank.pc = "open" =>
    /\ bank.wallet >= 0
    /\ (bank.last.deducts /\ ~bank.last.ok) => bank.wallet = bank.last.before

(* C35: once the count message of the chat hunt flow has been processed,   *)
(* the sender's session is idle again, pending_action None and pending_data *)
(* empty, whatever the hunt did: leads, none, insufficient balance, or an   *)
(* error in the hunt or in the duplicate filter.                            *)
HuntFlowReturnsToIdle ==
  (chat.pc = "open" /\ chat.last.handled /\ chat.last.pending = "hunt_leads"
     /\ chat.last.step = "count") =>
    chat.sessions[chat.last.sender] = NewSession

(* C36: an admin action of the chat, add tokens, delete user, set another  *)
(* user's password, make admin, is executed only for a sender who is an    *)
(* admin when it executes.                                                  *)
AdminActionsNeedAdmin ==
  (chat.pc = "open" /\ chat.last.act \in {"add_tokens", "delete_user", "set_password", "make_admin"}) =>
    chat.last.is_admin

(* C37: the change-password flow of the chat replaces the stored password  *)
(* of a user who has one only if the old password supplied verifies.       *)
PasswordChangeVerified ==
  (chat.pc = "open" /\ chat.last.pending = "change_password" /\ chat.last.replaced
     /\ chat.last.password # <<>>) =>
    verify_password(chat.last.old_password, chat.last.password)

(* C38: the delete-user action of the chat reports success exactly when    *)
(* UserService.delete_user deleted the user; it reports a failure for a    *)
(* missing user, a database error and the protected admin.                  *)
DeleteReportedFaithfully ==
  (chat.pc = "open" /\ chat.last.act = "delete_user") =>
    (chat.last.reply = "success" <=> chat.last.ok)

(* C39: whatever the responses to an active guided session, also after the *)
(* summary has been shown, process_response does not raise and the step of *)
(* the session stays an index of STEPS, 0..len(STEPS)-1.                    *)
GuidedStepValid ==
  guided.pc = "open" =>
    /\ ~guided.last.raised
    /\ guided.session.active => guided.session.step \in 0..(Len(STEPS) - 1)

====
